---- MODULE Spec2Model ----
(***************************************************************************)
(* Resume-job matching engine of backend/app/matching.py.                  *)
(*                                                                         *)
(* Python strings are sequences of one-character strings, so that lower(), *)
(* strip(), split(), the substring test and the regular expression of the  *)
(* keyword extractor are computed character by character.  Python floats   *)
(* are exact rationals <<numerator, denominator>> in lowest terms; results *)
(* rounded to one decimal are integers counting tenths (66.7 is 667).      *)
(* round() rounds the exact value and sends an exact tie to the even       *)
(* tenth; the direction a binary double takes on such a tie (87.45, stored *)
(* slightly off, may round to 87.5) is not modelled, and no property below *)
(* depends on it.                                                          *)
(***************************************************************************)
EXTENDS Integers, Sequences, FiniteSets, TLC

VARIABLES
    skill_weights,  \* JobResumeMatcher.skill_weights of the singleton `matcher`
    now_year,       \* datetime.now().year, the system clock
    resume,         \* the resume record handed to the matcher
    job,            \* the job record handed to the matcher
    call,           \* the last completed call: function, arguments, clock, result
    prev            \* the completed call before `call`

vars == <<skill_weights, now_year, resume, job, call, prev>>

----------------------------------------------------------------------------
(* String literals.                                                        *)

s_empty == <<>>
s_javascript == <<"j", "a", "v", "a", "s", "c", "r", "i", "p", "t">>
s_js == <<"j", "s">>
s_ecmascript == <<"e", "c", "m", "a", "s", "c", "r", "i", "p", "t">>
s_typescript == <<"t", "y", "p", "e", "s", "c", "r", "i", "p", "t">>
s_ts == <<"t", "s">>
s_python == <<"p", "y", "t", "h", "o", "n">>
s_py == <<"p", "y">>
s_react == <<"r", "e", "a", "c", "t">>
s_reactjs == <<"r", "e", "a", "c", "t", "j", "s">>
s_react_js == <<"r", "e", "a", "c", "t", ".", "j", "s">>
s_node == <<"n", "o", "d", "e">>
s_nodejs == <<"n", "o", "d", "e", "j", "s">>
s_node_js == <<"n", "o", "d", "e", ".", "j", "s">>
s_aws == <<"a", "w", "s">>
s_amazon_web_services == <<"a", "m", "a", "z", "o", "n", " ", "w", "e", "b", " ", "s", "e", "r", "v", "i", "c", "e", "s">>
s_gcp == <<"g", "c", "p">>
s_google_cloud_platform == <<"g", "o", "o", "g", "l", "e", " ", "c", "l", "o", "u", "d", " ", "p", "l", "a", "t", "f", "o", "r", "m">>
s_google_cloud == <<"g", "o", "o", "g", "l", "e", " ", "c", "l", "o", "u", "d">>
s_azure == <<"a", "z", "u", "r", "e">>
s_microsoft_azure == <<"m", "i", "c", "r", "o", "s", "o", "f", "t", " ", "a", "z", "u", "r", "e">>
s_machine_learning == <<"m", "a", "c", "h", "i", "n", "e", " ", "l", "e", "a", "r", "n", "i", "n", "g">>
s_ml == <<"m", "l">>
s_artificial_intelligence == <<"a", "r", "t", "i", "f", "i", "c", "i", "a", "l", " ", "i", "n", "t", "e", "l", "l", "i", "g", "e", "n", "c", "e">>
s_ai == <<"a", "i">>
s_user_interface == <<"u", "s", "e", "r", " ", "i", "n", "t", "e", "r", "f", "a", "c", "e">>
s_ui == <<"u", "i">>
s_user_experience == <<"u", "s", "e", "r", " ", "e", "x", "p", "e", "r", "i", "e", "n", "c", "e">>
s_ux == <<"u", "x">>
s_JS == <<"J", "S">>
s_JavaScript == <<"J", "a", "v", "a", "S", "c", "r", "i", "p", "t">>
s_java == <<"j", "a", "v", "a">>
s_Python_padded == <<" ", "P", "y", "t", "h", "o", "n", " ">>
s_Docker == <<"D", "o", "c", "k", "e", "r">>
s_blank == <<" ">>
s_entry == <<"e", "n", "t", "r", "y">>
s_mid == <<"m", "i", "d">>
s_senior == <<"s", "e", "n", "i", "o", "r">>
s_lead == <<"l", "e", "a", "d">>
s_executive == <<"e", "x", "e", "c", "u", "t", "i", "v", "e">>
s_Senior == <<"S", "e", "n", "i", "o", "r">>
s_Python == <<"P", "y", "t", "h", "o", "n">>
s_AWS == <<"A", "W", "S">>
s_REST == <<"R", "E", "S", "T">>
d_2024 == <<"2", "0", "2", "4">>
d_2025 == <<"2", "0", "2", "5">>
d_2020_03 == <<"2", "0", "2", "0", "-", "0", "3">>
d_2023_11 == <<"2", "0", "2", "3", "-", "1", "1">>
d_2018 == <<"2", "0", "1", "8">>
d_2013_01 == <<"2", "0", "1", "3", "-", "0", "1">>
d_2020 == <<"2", "0", "2", "0">>
d_1970 == <<"1", "9", "7", "0">>
d_2022 == <<"2", "0", "2", "2">>
d_n_a == <<"n", "/", "a">>
s_Backend_Engineer == <<"B", "a", "c", "k", "e", "n", "d", " ", "E", "n", "g", "i", "n", "e", "e", "r">>
s_backend_engineer == <<"b", "a", "c", "k", "e", "n", "d", " ", "e", "n", "g", "i", "n", "e", "e", "r">>
s_Senior_Backend_Engineer == <<"S", "e", "n", "i", "o", "r", " ", "B", "a", "c", "k", "e", "n", "d", " ", "E", "n", "g", "i", "n", "e", "e", "r">>
s_Data_Analyst == <<"D", "a", "t", "a", " ", "A", "n", "a", "l", "y", "s", "t">>
s_Austin_TX == <<"A", "u", "s", "t", "i", "n", ",", " ", "T", "X">>
s_Dallas_TX == <<"D", "a", "l", "l", "a", "s", ",", " ", "t", "x">>
s_Remote == <<"R", "e", "m", "o", "t", "e">>
s_description == <<"B", "u", "i", "l", "d", " ", "R", "E", "S", "T", " ", "A", "P", "I", "s", " ", "i", "n", " ", "p", "y", "t", "h", "o", "n", "3", " ", "o", "r", " ", "P", "y", "t", "h", "o", "n">>
s_guru == <<"g", "u", "r", "u">>
s_austin == <<"a", "u", "s", "t", "i", "n">>
s_Waco_TX == <<"W", "a", "c", "o", ",", "T", "X">>
s_Paris_FR == <<"P", "a", "r", "i", "s", ",", " ", "F", "R">>
s_Data_Engineer == <<"D", "a", "t", "a", " ", "E", "n", "g", "i", "n", "e", "e", "r">>
s_Backend_Engineer_trailing == <<"B", "a", "c", "k", "e", "n", "d", " ", "E", "n", "g", "i", "n", "e", "e", "r", " ">>

----------------------------------------------------------------------------
(* str methods.                                                            *)

UpperCase == <<"A", "B", "C", "D", "E", "F", "G", "H", "I", "J", "K", "L", "M",
               "N", "O", "P", "Q", "R", "S", "T", "U", "V", "W", "X", "Y", "Z">>
LowerCase == <<"a", "b", "c", "d", "e", "f", "g", "h", "i", "j", "k", "l", "m",
               "n", "o", "p", "q", "r", "s", "t", "u", "v", "w", "x", "y", "z">>
Digits == <<"0", "1", "2", "3", "4", "5", "6", "7", "8", "9">>
Whitespace == {" ", "\t", "\n"}

IndexOf(c, chars) == CHOOSE i \in 1..Len(chars) : chars[i] = c
InSeq(x, s) == \E i \in 1..Len(s) : s[i] = x

UpperSet == {UpperCase[i] : i \in 1..Len(UpperCase)}
LetterSet == UpperSet \cup {LowerCase[i] : i \in 1..Len(LowerCase)}
DigitSet == {Digits[i] : i \in 1..Len(Digits)}

IsUpper(c) == c \in UpperSet
IsLetter(c) == c \in LetterSet
IsDigit(c) == c \in DigitSet

lower_char(c) == IF IsUpper(c) THEN LowerCase[IndexOf(c, UpperCase)] ELSE c

\* str.lower()
lower(s) == [i \in 1..Len(s) |-> lower_char(s[i])]

\* str.strip(): leading and trailing whitespace removed
strip(s) ==
    LET keep == {i \in 1..Len(s) : s[i] \notin Whitespace}
        first == CHOOSE i \in keep : \A k \in keep : i <= k
        last == CHOOSE i \in keep : \A k \in keep : k <= i
    IN IF keep = {} THEN <<>> ELSE SubSeq(s, first, last)

\* the substring test `a in b`
contains(a, b) ==
    \E i \in 0..(Len(b) - Len(a)) : SubSeq(b, i + 1, i + Len(a)) = a

----------------------------------------------------------------------------
(* float arithmetic, exact.                                                *)

RECURSIVE GCD(_, _)
GCD(a, b) == IF b = 0 THEN a ELSE GCD(b, a % b)

Rat(n, d) == LET g == GCD(n, d) IN <<n \div g, d \div g>>
Whole(n) == <<n, 1>>
RatAdd(p, q) == Rat(p[1] * q[2] + q[1] * p[2], p[2] * q[2])
RatMul(p, q) == Rat(p[1] * q[1], p[2] * q[2])
RatLeq(p, q) == p[1] * q[2] <= q[1] * p[2]
RatLt(p, q) == p[1] * q[2] < q[1] * p[2]
RatMin(p, q) == IF RatLeq(p, q) THEN p ELSE q
RatMax(p, q) == IF RatLeq(p, q) THEN q ELSE p

\* round(x, 1), as the number of tenths; a tie goes to the even tenth
round1(x) ==
    LET n == 10 * x[1]
        f == n \div x[2]
        r == n % x[2]
    IN IF 2 * r < x[2] THEN f
       ELSE IF 2 * r > x[2] THEN f + 1
       ELSE IF f % 2 = 0 THEN f ELSE f + 1

----------------------------------------------------------------------------
(* JobResumeMatcher._skill_matches                                         *)

\* the `variations` dict, each entry as [main] + alts, in dict order
variations == <<
    <<s_javascript, s_js, s_ecmascript>>,
    <<s_typescript, s_ts>>,
    <<s_python, s_py>>,
    <<s_react, s_reactjs, s_react_js>>,
    <<s_node, s_nodejs, s_node_js>>,
    <<s_aws, s_amazon_web_services>>,
    <<s_gcp, s_google_cloud_platform, s_google_cloud>>,
    <<s_azure, s_microsoft_azure>>,
    <<s_machine_learning, s_ml>>,
    <<s_artificial_intelligence, s_ai>>,
    <<s_user_interface, s_ui>>,
    <<s_user_experience, s_ux>> >>

skill_matches_alternates_only(job_skill_in, resume_skill_in) ==
    LET job_skill == strip(lower(job_skill_in))
        resume_skill == strip(lower(resume_skill_in))
    IN IF job_skill = resume_skill THEN TRUE
       ELSE IF contains(job_skill, resume_skill) \/ contains(resume_skill, job_skill)
       THEN TRUE
       ELSE \E g \in 1..Len(variations) :
                InSeq(job_skill, Tail(variations[g]))
                /\ InSeq(resume_skill, Tail(variations[g]))
skill_matches_job_within_resume(job_skill_in, resume_skill_in) ==
    LET job_skill == strip(lower(job_skill_in))
        resume_skill == strip(lower(resume_skill_in))
    IN IF job_skill = resume_skill THEN TRUE
       ELSE IF contains(job_skill, resume_skill) THEN TRUE
       ELSE \E g \in 1..Len(variations) :
                InSeq(job_skill, variations[g]) /\ InSeq(resume_skill, variations[g])
skill_matches(job_skill_in, resume_skill_in) ==
    LET job_skill == strip(lower(job_skill_in))
        resume_skill == strip(lower(resume_skill_in))
    IN IF job_skill = resume_skill THEN TRUE
       ELSE IF contains(job_skill, resume_skill) \/ contains(resume_skill, job_skill)
       THEN TRUE
       ELSE \E g \in 1..Len(variations) :
                InSeq(job_skill, variations[g]) /\ InSeq(resume_skill, variations[g])

----------------------------------------------------------------------------
(* JobResumeMatcher._calculate_skills_match                                *)

\* any(self._skill_matches(skill.lower(), rs) for rs in resume_skills_lower)
any_match_first_only(skill, resume_skills_lower) ==
    resume_skills_lower # <<>> /\ skill_matches(lower(skill), resume_skills_lower[1])
any_match(skill, resume_skills_lower) ==
    \E i \in 1..Len(resume_skills_lower) :
        skill_matches(lower(skill), resume_skills_lower[i])

\* the job skills of one list that are appended to `matched`, in list order
matched_of_lowered(skills, resume_skills_lower) ==
    LET kept == SelectSeq(skills, LAMBDA skill : any_match(skill, resume_skills_lower))
    IN [i \in 1..Len(kept) |-> lower(kept[i])]
matched_of(skills, resume_skills_lower) ==
    SelectSeq(skills, LAMBDA skill : any_match(skill, resume_skills_lower))

\* the required skills that are appended to `missing`
missing_of_with_nice(required_skills, nice_to_have_skills, resume_skills_lower) ==
    SelectSeq(required_skills \o nice_to_have_skills,
              LAMBDA skill : ~any_match(skill, resume_skills_lower))
missing_of(required_skills, nice_to_have_skills, resume_skills_lower) ==
    SelectSeq(required_skills, LAMBDA skill : ~any_match(skill, resume_skills_lower))

RECURSIVE first_occurrences(_)
first_occurrences(s) ==
    IF s = <<>> THEN <<>>
    ELSE LET front == SubSeq(s, 1, Len(s) - 1)
         IN IF InSeq(s[Len(s)], front) THEN first_occurrences(front)
            ELSE Append(first_occurrences(front), s[Len(s)])

\* `matched` after both loops
matched_list_deduplicated(matched_required, matched_nice) ==
    first_occurrences(matched_required \o matched_nice)
matched_list(matched_required, matched_nice) == matched_required \o matched_nice

\* what n_required required and n_nice nice-to-have skills add to score or max_score
skill_points_unweighted(n_required, n_nice) == n_required + n_nice
skill_points(n_required, n_nice) ==
    skill_weights.required * n_required + skill_weights.nice_to_have * n_nice

\* returns <<score, matched, missing>>
calculate_skills_match(resume_skills, required_skills, nice_to_have_skills) ==
    IF required_skills = <<>> /\ nice_to_have_skills = <<>>
    THEN <<Whole(100), <<>>, <<>>>>
    ELSE
      LET resume_skills_lower == [i \in 1..Len(resume_skills) |-> lower(resume_skills[i])]
          matched_required == matched_of(required_skills, resume_skills_lower)
          matched_nice == matched_of(nice_to_have_skills, resume_skills_lower)
          matched == matched_list(matched_required, matched_nice)
          missing == missing_of(required_skills, nice_to_have_skills, resume_skills_lower)
          score == skill_points(Len(matched_required), Len(matched_nice))
          max_score == skill_points(Len(required_skills), Len(nice_to_have_skills))
      IN IF max_score = 0 THEN <<Whole(100), matched, missing>>
         ELSE <<Rat(score * 100, max_score), matched, missing>>

----------------------------------------------------------------------------
(* JobResumeMatcher._calculate_total_years_experience                      *)

\* str.split(sep) for a one-character separator
RECURSIVE split(_, _)
split(s, sep) ==
    IF \E i \in 1..Len(s) : s[i] = sep
    THEN LET i == CHOOSE k \in 1..Len(s) : s[k] = sep /\ \A m \in 1..(k - 1) : s[m] # sep
         IN <<SubSeq(s, 1, i - 1)>> \o split(SubSeq(s, i + 1, Len(s)), sep)
    ELSE <<s>>

RECURSIVE digits_value(_)
digits_value(ds) ==
    IF ds = <<>> THEN 0
    ELSE 10 * digits_value(SubSeq(ds, 1, Len(ds) - 1)) + (IndexOf(ds[Len(ds)], Digits) - 1)

\* int(s): surrounding whitespace and one sign are accepted; anything else
\* than decimal digits raises ValueError
int_str(s) ==
    LET t == strip(s)
        signed == t # <<>> /\ t[1] \in {"+", "-"}
        body == IF signed THEN Tail(t) ELSE t
    IN IF body # <<>> /\ \A i \in 1..Len(body) : IsDigit(body[i])
       THEN [raises |-> FALSE,
             value |-> IF signed /\ t[1] = "-" THEN 0 - digits_value(body)
                       ELSE digits_value(body)]
       ELSE [raises |-> TRUE, value |-> 0]

\* the end year of an entry: the clock for a current or open-ended entry
end_year_of_always_now(entry, year) == [raises |-> FALSE, value |-> year]
end_year_of(entry, year) ==
    IF entry.is_current \/ entry.end_date = <<>>
    THEN [raises |-> FALSE, value |-> year]
    ELSE int_str(split(entry.end_date, "-")[1])

\* the months one entry adds to total_months (the body of the for loop)
entry_months_inclusive(entry, year) ==
    LET start == entry.start_date
        start_year == IF start # <<>> THEN int_str(split(start, "-")[1])
                      ELSE [raises |-> FALSE, value |-> 0]
        end_year == end_year_of(entry, year)
    IN IF start_year.raises \/ end_year.raises THEN 0
       ELSE IF start_year.value # 0 /\ end_year.value # 0
            THEN LET months == (end_year.value - start_year.value + 1) * 12
                 IN IF months > 0 THEN months ELSE 0
            ELSE 0
entry_months(entry, year) ==
    LET start == entry.start_date
        start_year == IF start # <<>> THEN int_str(split(start, "-")[1])
                      ELSE [raises |-> FALSE, value |-> 0]   \* None, falsy like 0
        end_year == end_year_of(entry, year)
    IN IF start_year.raises THEN 0
       ELSE IF end_year.raises THEN 0
       ELSE IF start_year.value # 0 /\ end_year.value # 0
            THEN LET months == (end_year.value - start_year.value) * 12
                 IN IF months > 0 THEN months ELSE 0
            ELSE 0

\* the loop leaving at the first entry whose dates do not parse
RECURSIVE total_months_of_aborting(_, _)
total_months_of_aborting(work_experience, year) ==
    IF work_experience = <<>> THEN 0
    ELSE LET entry == Head(work_experience)
             start_raises == entry.start_date # <<>>
                             /\ int_str(split(entry.start_date, "-")[1]).raises
         IN IF start_raises \/ end_year_of(entry, year).raises THEN 0
            ELSE entry_months(entry, year)
                 + total_months_of_aborting(Tail(work_experience), year)

RECURSIVE total_months_of(_, _)
total_months_of(work_experience, year) ==
    IF work_experience = <<>> THEN 0
    ELSE entry_months(Head(work_experience), year)
         + total_months_of(Tail(work_experience), year)

calculate_total_years_experience(work_experience, year) ==
    Rat(total_months_of(work_experience, year), 12)

----------------------------------------------------------------------------
(* JobResumeMatcher._calculate_experience_match                            *)

\* the `level_expectations` dict: <<level, min_years, max_years>>
level_expectations == <<
    <<s_entry, 0, 2>>,
    <<s_mid, 2, 5>>,
    <<s_senior, 5, 10>>,
    <<s_lead, 7, 15>>,
    <<s_executive, 10, 50>> >>

\* the score of a known level once total_years is computed
experience_band_strict(total_years, min_years, max_years) ==
    IF RatLeq(Whole(min_years), total_years)
    THEN IF RatLeq(total_years, Whole(max_years)) THEN Whole(100) ELSE Whole(90)
    ELSE LET ratio == IF min_years > 0
                      THEN Rat(total_years[1], total_years[2] * min_years)
                      ELSE Whole(1)
         IN RatMin(Whole(100), RatMul(ratio, Whole(100)))
experience_band(total_years, min_years, max_years) ==
    IF RatLeq(Whole(min_years), total_years)
    THEN IF RatLeq(total_years, Whole(max_years + 2)) THEN Whole(100) ELSE Whole(90)
    ELSE LET ratio == IF min_years > 0
                      THEN Rat(total_years[1], total_years[2] * min_years)
                      ELSE Whole(1)
         IN RatMin(Whole(100), RatMul(ratio, Whole(100)))

calculate_experience_match(work_experience, required_level_in, year) ==
    IF required_level_in = <<>> THEN Whole(100)
    ELSE
      LET total_years == calculate_total_years_experience(work_experience, year)
          required_level == lower(required_level_in)
          known == {i \in 1..Len(level_expectations) :
                        level_expectations[i][1] = required_level}
      IN IF known = {} THEN Whole(100)
         ELSE LET e == level_expectations[CHOOSE i \in known : TRUE]
              IN experience_band(total_years, e[2], e[3])

----------------------------------------------------------------------------
(* JobResumeMatcher._calculate_location_match                              *)

\* the state/country test on two lower-cased locations
same_region_untrimmed(pref, job_loc) ==
    LET pref_parts == split(pref, ",")
        job_parts == split(job_loc, ",")
    IN /\ Len(pref_parts) > 1
       /\ Len(job_parts) > 1
       /\ pref_parts[Len(pref_parts)] = job_parts[Len(job_parts)]
same_region(pref, job_loc) ==
    LET pref_parts == split(pref, ",")
        job_parts == split(job_loc, ",")
    IN /\ Len(pref_parts) > 1
       /\ Len(job_parts) > 1
       /\ strip(pref_parts[Len(pref_parts)]) = strip(job_parts[Len(job_parts)])

\* a scorer that gives nothing to a remote-only candidate for an on-site job
calculate_location_match_from_zero(preferred_location, remote_preference, job_location, is_remote, is_hybrid) ==
    IF is_remote /\ remote_preference = "remote" THEN 100
    ELSE IF remote_preference = "remote" THEN 0
    ELSE IF remote_preference = "any" THEN 80 ELSE 50
\* the same function with the flexible-candidate rule tried before the
\* location comparison
calculate_location_match_any_first(preferred_location, remote_preference, job_location, is_remote, is_hybrid) ==
    IF is_remote /\ remote_preference = "remote" THEN 100
    ELSE IF is_hybrid /\ remote_preference = "hybrid" THEN 100
    ELSE IF remote_preference = "remote" /\ ~is_remote THEN 30
    ELSE IF remote_preference = "any" THEN 80
    ELSE
      LET pref == lower(preferred_location)
          job_loc == lower(job_location)
          both == preferred_location # <<>> /\ job_location # <<>>
      IN IF both /\ (contains(pref, job_loc) \/ contains(job_loc, pref)) THEN 100
         ELSE IF both /\ same_region(pref, job_loc) THEN 70
         ELSE 50
calculate_location_match(preferred_location, remote_preference, job_location, is_remote, is_hybrid) ==
    IF is_remote /\ remote_preference = "remote" THEN 100
    ELSE IF is_hybrid /\ remote_preference = "hybrid" THEN 100
    ELSE IF remote_preference = "remote" /\ ~is_remote THEN 30
    ELSE
      LET pref == lower(preferred_location)
          job_loc == lower(job_location)
          both == preferred_location # <<>> /\ job_location # <<>>
      IN IF both /\ (contains(pref, job_loc) \/ contains(job_loc, pref)) THEN 100
         ELSE IF both /\ same_region(pref, job_loc) THEN 70
         ELSE IF remote_preference = "any" THEN 80
         ELSE 50

----------------------------------------------------------------------------
(* JobResumeMatcher._calculate_keyword_match                               *)

IsWordChar(c) == IsLetter(c) \/ IsDigit(c) \/ c = "_"

\* re.findall(r'\b[A-Za-z]{4,}\b', text) as a set: the maximal runs of word
\* characters that are made of four or more letters
findall_words(text) ==
    LET n == Len(text)
        starts == {i \in 1..n : IsWordChar(text[i])
                                 /\ (i = 1 \/ ~IsWordChar(text[i - 1]))}
        ends == {j \in 1..n : IsWordChar(text[j])
                               /\ (j = n \/ ~IsWordChar(text[j + 1]))}
        end_of(i) == CHOOSE j \in ends : j >= i /\ \A k \in ends : k >= i => j <= k
        runs == {SubSeq(text, i, end_of(i)) : i \in starts}
    IN {w \in runs : Len(w) >= 4 /\ \A k \in 1..Len(w) : IsLetter(w[k])}

lower_set(strings) == {lower(strings[i]) : i \in 1..Len(strings)}

\* the same function counting list entries instead of set members
calculate_keyword_match_on_lists(resume_keywords, job_keywords, job_description) ==
    IF job_keywords = <<>> /\ job_description = <<>> THEN Whole(100)
    ELSE
      LET resume_kw_set == lower_set(resume_keywords)
          desc_keywords == IF job_description # <<>>
                           THEN findall_words(lower(job_description)) ELSE {}
          listed == {i \in 1..Len(job_keywords) : lower(job_keywords[i]) \in resume_kw_set}
          total == Len(job_keywords) + Cardinality(desc_keywords)
      IN IF total = 0 THEN Whole(100)
         ELSE Rat((Cardinality(listed) + Cardinality(resume_kw_set \cap desc_keywords)) * 100,
                  total)
calculate_keyword_match(resume_keywords, job_keywords, job_description) ==
    IF job_keywords = <<>> /\ job_description = <<>> THEN Whole(100)
    ELSE
      LET resume_kw_set == lower_set(resume_keywords)
          desc_keywords == IF job_description # <<>>
                           THEN findall_words(lower(job_description)) ELSE {}
          all_job_keywords == lower_set(job_keywords) \cup desc_keywords
          matches == resume_kw_set \cap all_job_keywords
      IN IF all_job_keywords = {} THEN Whole(100)
         ELSE Rat(Cardinality(matches) * 100, Cardinality(all_job_keywords))

----------------------------------------------------------------------------
(* JobResumeMatcher._calculate_title_match                                 *)

\* str.split() without arguments, as a set: the maximal runs of
\* non-whitespace characters
word_set(text) ==
    LET n == Len(text)
        starts == {i \in 1..n : text[i] \notin Whitespace
                                 /\ (i = 1 \/ text[i - 1] \in Whitespace)}
        ends == {j \in 1..n : text[j] \notin Whitespace
                               /\ (j = n \/ text[j + 1] \in Whitespace)}
        end_of(i) == CHOOSE j \in ends : j >= i /\ \A k \in ends : k >= i => j <= k
    IN {SubSeq(text, i, end_of(i)) : i \in starts}

\* best_match after one role that is no exact match (the rest of the loop body)
title_candidate_overwriting(job_title_lower, exp_title, best_match) ==
    LET after_contains ==
            IF contains(job_title_lower, exp_title) \/ contains(exp_title, job_title_lower)
            THEN Whole(80) ELSE Whole(0)
        job_words == word_set(job_title_lower)
        exp_words == word_set(exp_title)
    IN IF job_words # {} /\ exp_words # {}
       THEN RatMax(after_contains,
                   Rat(Cardinality(job_words \cap exp_words) * 100,
                       Cardinality(job_words \cup exp_words)))
       ELSE after_contains
title_candidate_else_chain(job_title_lower, exp_title, best_match) ==
    LET job_words == word_set(job_title_lower)
        exp_words == word_set(exp_title)
    IN IF contains(job_title_lower, exp_title) \/ contains(exp_title, job_title_lower)
       THEN RatMax(best_match, Whole(80))
       ELSE IF job_words # {} /\ exp_words # {}
       THEN RatMax(best_match,
                   Rat(Cardinality(job_words \cap exp_words) * 100,
                       Cardinality(job_words \cup exp_words)))
       ELSE best_match
title_candidate(job_title_lower, exp_title, best_match) ==
    LET after_contains ==
            IF contains(job_title_lower, exp_title) \/ contains(exp_title, job_title_lower)
            THEN RatMax(best_match, Whole(80)) ELSE best_match
        job_words == word_set(job_title_lower)
        exp_words == word_set(exp_title)
    IN IF job_words # {} /\ exp_words # {}
       THEN RatMax(after_contains,
                   Rat(Cardinality(job_words \cap exp_words) * 100,
                       Cardinality(job_words \cup exp_words)))
       ELSE after_contains

\* the loop left after the first role
title_loop_first_only(work_experience, i, job_title_lower, best_match) ==
    IF i > Len(work_experience) THEN best_match
    ELSE LET exp_title == lower(work_experience[i].title)
         IN IF exp_title = <<>> THEN best_match
            ELSE IF job_title_lower = exp_title THEN Whole(100)
            ELSE title_candidate(job_title_lower, exp_title, best_match)

\* the for loop, from role i on
RECURSIVE title_loop(_, _, _, _)
title_loop(work_experience, i, job_title_lower, best_match) ==
    IF i > Len(work_experience) THEN best_match
    ELSE LET exp_title == lower(work_experience[i].title)
         IN IF exp_title = <<>>
            THEN title_loop(work_experience, i + 1, job_title_lower, best_match)
            ELSE IF job_title_lower = exp_title THEN Whole(100)
            ELSE title_loop(work_experience, i + 1, job_title_lower,
                            CHOOSE best \in {title_candidate(job_title_lower, exp_title,
                                                             best_match)} : TRUE)

calculate_title_match(work_experience, job_title) ==
    IF job_title = <<>> \/ work_experience = <<>> THEN Whole(50)
    ELSE title_loop(work_experience, 1, lower(job_title), Whole(0))

----------------------------------------------------------------------------
(* JobResumeMatcher.calculate_match                                        *)

\* the weighted total of the five sub-scores
weighted_total_other_weights(skills_score, experience_score, location_score, keyword_score, title_score) ==
    RatAdd(RatMul(skills_score, Rat(40, 100)),
    RatAdd(RatMul(experience_score, Rat(20, 100)),
    RatAdd(RatMul(location_score, Rat(20, 100)),
    RatAdd(RatMul(keyword_score, Rat(10, 100)),
           RatMul(title_score, Rat(10, 100))))))
weighted_total(skills_score, experience_score, location_score, keyword_score, title_score) ==
    RatAdd(RatMul(skills_score, Rat(40, 100)),
    RatAdd(RatMul(experience_score, Rat(20, 100)),
    RatAdd(RatMul(location_score, Rat(15, 100)),
    RatAdd(RatMul(keyword_score, Rat(15, 100)),
           RatMul(title_score, Rat(10, 100))))))

\* len(matched) >= len(required_skills) * 0.8 and experience_score >= 80
boost_applies_all_required(matched, required_skills, experience_score) ==
    /\ Len(matched) >= Len(required_skills)
    /\ RatLeq(Whole(80), experience_score)
boost_applies(matched, required_skills, experience_score) ==
    /\ Len(matched) * 10 >= Len(required_skills) * 8
    /\ RatLeq(Whole(80), experience_score)

\* min(100, total_score * 1.1)
boosted_uncapped(total_score) == RatMul(total_score, Rat(11, 10))
boosted(total_score) == RatMin(Whole(100), RatMul(total_score, Rat(11, 10)))

skills_reason(matched) ==
    "Matches " \o ToString(Len(matched)) \o " required/nice-to-have skills"

when_always(cond, reason) == <<reason>>
when(cond, reason) == IF cond THEN <<reason>> ELSE <<>>

\* the MatchResult and the sub-scores it was built from
match_result(skills, experience_score, location_score, keyword_score, title_score, required_skills) ==
    LET skills_score == skills[1]
        matched == skills[2]
        missing == skills[3]
        total_score == weighted_total(skills_score, experience_score, location_score,
                                      keyword_score, title_score)
        boost == boost_applies(matched, required_skills, experience_score)
        reasons ==
            when(matched # <<>>, skills_reason(matched))
            \o when(RatLeq(Whole(80), experience_score),
                    "Experience level matches job requirements")
            \o when(RatLeq(Whole(80), location_score), "Location preferences align")
            \o when(RatLeq(Whole(70), keyword_score),
                    "Strong keyword alignment with job description")
            \o when(RatLeq(Whole(70), title_score),
                    "Previous roles similar to this position")
            \o when(boost, "Highly qualified candidate")
    IN [result |->
            [score |-> round1(IF boost THEN boosted(total_score) ELSE total_score),
             matching_skills |-> matched,
             missing_skills |-> missing,
             experience_match |-> round1(experience_score),
             location_match |-> round1(location_score),
             reasons |-> reasons],
        locals |->
            [skills_score |-> skills_score,
             experience_score |-> experience_score,
             location_score |-> location_score,
             keyword_score |-> keyword_score,
             title_score |-> title_score,
             total_score |-> total_score]]

\* the five sub-scorers are called once each, in the order of the source
calculate_match(r, j, year) ==
    CHOOSE m \in
        {match_result(skills, experience_score, location_score, keyword_score,
                      title_score, j.required_skills) :
            skills \in {calculate_skills_match(r.skills, j.required_skills,
                                               j.nice_to_have_skills)},
            experience_score \in {calculate_experience_match(r.work_experience,
                                      j.experience_level, year)},
            location_score \in {Whole(calculate_location_match(r.preferred_location,
                                    r.remote_preference, j.location, j.is_remote,
                                    j.is_hybrid))},
            keyword_score \in {calculate_keyword_match(r.keywords, j.keywords,
                                                       j.description)},
            title_score \in {calculate_title_match(r.work_experience, j.title)}} : TRUE

----------------------------------------------------------------------------
(* calculate_match on records whose optional fields may hold None.         *)
(*                                                                         *)
(* A record lists in `none` the keys it holds with the value None, and     *)
(* keeps the empty value under each of them.  dict.get(key, default)       *)
(* returns None for such a key: the default only stands in for a key that  *)
(* is absent.  None is falsy, so every `if not x` and `if x` test treats   *)
(* it as empty; iterating over it, len() of it and a method call on it     *)
(* raise.                                                                  *)

IsNone(record, key) == key \in record.none
Falsy(record, key) == IsNone(record, key) \/ record[key] = <<>>

\* _calculate_skills_match: past the early return, the three lists are
\* iterated (lines 122, 130, 139)
skills_raises(r, j) ==
    /\ ~(Falsy(j, "required_skills") /\ Falsy(j, "nice_to_have_skills"))
    /\ \/ IsNone(r, "skills")
       \/ IsNone(j, "required_skills")
       \/ IsNone(j, "nice_to_have_skills")

\* _calculate_experience_match: past the early return on an empty level,
\* _calculate_total_years_experience iterates work_experience (line 231);
\* a None start_date or end_date is falsy there and is not parsed
experience_raises(r, j) ==
    ~Falsy(j, "experience_level") /\ IsNone(r, "work_experience")

\* _calculate_keyword_match: past the early return, both keyword lists are
\* iterated (lines 306, 315)
keyword_raises(r, j) ==
    /\ ~(Falsy(j, "keywords") /\ Falsy(j, "description"))
    /\ IsNone(r, "keywords") \/ IsNone(j, "keywords")

\* _calculate_title_match: past the early return, job.get('title', '').lower()
\* is called on each role until one equals the job title (line 337)
title_raises(r, j) ==
    /\ ~Falsy(j, "title")
    /\ ~Falsy(r, "work_experience")
    /\ \E i \in 1..Len(r.work_experience) :
           /\ IsNone(r.work_experience[i], "title")
           /\ \A k \in 1..(i - 1) :
                  lower(r.work_experience[k].title) # lower(j.title)

\* the exception calculate_match propagates, "" when it returns
raised_by(r, j) ==
    IF skills_raises(r, j) THEN "TypeError"
    ELSE IF experience_raises(r, j) THEN "TypeError"
    ELSE IF keyword_raises(r, j) THEN "TypeError"
    ELSE IF title_raises(r, j) THEN "AttributeError"
    ELSE IF IsNone(j, "required_skills") THEN "TypeError"   \* len(None), line 98
    ELSE ""

calculate_match_optional(r, j, year) ==
    CHOOSE outcome \in
        {IF error # "" THEN [raises |-> TRUE, error |-> error]
         ELSE [raises |-> FALSE, result |-> calculate_match(r, j, year).result] :
            error \in {raised_by(r, j)}} : TRUE

----------------------------------------------------------------------------
(* JobResumeMatcher.rank_candidates and find_matching_jobs                 *)

\* the pairs whose match reaches min_score (tenths), in the order of the loop
keep(pairs, min_score) == SelectSeq(pairs, LAMBDA p : p[2].score >= min_score)

\* one step of list.sort(key=score, reverse=True): the sort is stable, so a
\* pair goes behind every pair of greater or equal score that came before it
insert_by_score_ties_first(sorted, pair) ==
    LET k == Cardinality({i \in 1..Len(sorted) : sorted[i][2].score > pair[2].score})
    IN SubSeq(sorted, 1, k) \o <<pair>> \o SubSeq(sorted, k + 1, Len(sorted))
insert_by_score(sorted, pair) ==
    LET k == Cardinality({i \in 1..Len(sorted) : sorted[i][2].score >= pair[2].score})
    IN SubSeq(sorted, 1, k) \o <<pair>> \o SubSeq(sorted, k + 1, Len(sorted))

RECURSIVE sort_by_score(_)
sort_by_score(results) ==
    IF results = <<>> THEN <<>>
    ELSE insert_by_score(sort_by_score(SubSeq(results, 1, Len(results) - 1)),
                         results[Len(results)])

\* what a batch call leaves behind: `results = []` allocates the list that
\* is filled, sorted and returned; the list passed in is only iterated
batch_effect_in_place(items, sorted) ==
    [ret |-> sorted, items |-> [i \in 1..Len(sorted) |-> sorted[i][1]], fresh |-> FALSE]
batch_effect(items, sorted) == [ret |-> sorted, items |-> items, fresh |-> TRUE]

rank_candidates(resumes, j, min_score, year) ==
    CHOOSE sorted \in
        {sort_by_score(results) :
            results \in {keep([i \in 1..Len(resumes) |->
                                  <<resumes[i], calculate_match(resumes[i], j, year).result>>],
                              min_score)}} : TRUE

find_matching_jobs(r, jobs, min_score, year) ==
    CHOOSE sorted \in
        {sort_by_score(results) :
            results \in {keep([i \in 1..Len(jobs) |->
                                  <<jobs[i], calculate_match(r, jobs[i], year).result>>],
                              min_score)}} : TRUE

----------------------------------------------------------------------------
(* get_recommended_jobs of backend/app/main.py.  A row of a table is the   *)
(* record of its columns, None columns listed in `none`; a job is named by *)
(* its place in the jobs table, which lists the rows in the order they     *)
(* were created and in which a query without ORDER BY returns them.        *)

\* `column or default`: None and the empty value both give the default; the
\* entries of work_experience pass as they are stored
resume_data(row) ==
    [skills |-> row.skills, work_experience |-> row.work_experience,
     preferred_location |-> row.preferred_location,
     remote_preference |-> IF IsNone(row, "remote_preference") \/ row.remote_preference = ""
                           THEN "any" ELSE row.remote_preference,
     keywords |-> row.keywords, none |-> {}]

job_data(row) ==
    [title |-> row.title, description |-> row.description,
     required_skills |-> row.required_skills,
     nice_to_have_skills |-> row.nice_to_have_skills,
     experience_level |-> row.experience_level, location |-> row.location,
     is_remote |-> row.is_remote, is_hybrid |-> row.is_hybrid,
     keywords |-> row.keywords, none |-> {}]

\* filter(models.Job.status == "active"): the places of the active rows
active(rows) ==
    LET places == [k \in 1..Len(rows) |-> k]
    IN SelectSeq(places, LAMBDA k : rows[k].status = "active")

\* the body of the loop over the jobs: the try block and its except branch
scored(r, rows, k, year) ==
    CHOOSE item \in
        {IF outcome.raises
         THEN [job |-> k, match_score |-> 0, matching_skills |-> <<>>,
               match_reasons |-> <<>>]
         ELSE [job |-> k, match_score |-> outcome.result.score,
               matching_skills |-> outcome.result.matching_skills,
               match_reasons |-> outcome.result.reasons] :
            outcome \in {calculate_match_optional(r, job_data(rows[k]), year)}} : TRUE

RECURSIVE scored_jobs_skipping(_, _, _, _)
scored_jobs_skipping(r, rows, jobs, year) ==
    IF jobs = <<>> THEN <<>>
    ELSE LET rest == scored_jobs_skipping(r, rows, Tail(jobs), year)
         IN IF raised_by(r, job_data(rows[Head(jobs)])) # "" THEN rest
            ELSE <<scored(r, rows, Head(jobs), year)>> \o rest
scored_jobs(r, rows, jobs, year) == [i \in 1..Len(jobs) |-> scored(r, rows, jobs[i], year)]

\* scored_jobs.sort(key=match_score, reverse=True), stable
insert_by_match_score(sorted, item) ==
    LET k == Cardinality({i \in 1..Len(sorted) : sorted[i].match_score >= item.match_score})
    IN SubSeq(sorted, 1, k) \o <<item>> \o SubSeq(sorted, k + 1, Len(sorted))

RECURSIVE sort_by_match_score(_)
sort_by_match_score(items) ==
    IF items = <<>> THEN <<>>
    ELSE insert_by_match_score(sort_by_match_score(SubSeq(items, 1, Len(items) - 1)),
                               items[Len(items)])

\* items[:limit]; a negative limit counts from the end
slice_to(items, limit) ==
    IF limit >= 0
    THEN SubSeq(items, 1, IF limit < Len(items) THEN limit ELSE Len(items))
    ELSE SubSeq(items, 1, IF Len(items) + limit > 0 THEN Len(items) + limit ELSE 0)

\* round(x) of the built-in, to the nearest integer and to the even one on a
\* tie; x counts tenths, and a tie (n + 0.5) is exact in a double
round0(tenths) ==
    LET whole == tenths \div 10
        rest == tenths % 10
    IN IF rest < 5 THEN whole
       ELSE IF rest > 5 THEN whole + 1
       ELSE IF whole % 2 = 0 THEN whole ELSE whole + 1

\* an entry of the response; the other columns of the job are copied as stored
formatted(item) ==
    [id |-> item.job, match_score |-> round0(item.match_score),
     matching_skills |-> item.matching_skills, match_reasons |-> item.match_reasons]

\* the branch for a user without resume: the newest active jobs, not scored
recent(rows, limit) ==
    LET jobs == active(rows)
        newest == [i \in 1..Len(jobs) |-> jobs[Len(jobs) + 1 - i]]
        first == slice_to(newest, limit)
    IN [i \in 1..Len(first) |->
           [id |-> first[i], match_score |-> "None", matching_skills |-> <<>>,
            match_reasons |-> <<>>]]

get_recommended_jobs(resumes, rows, limit, year) ==
    IF resumes = <<>>
    THEN [status |-> 200, jobs |-> recent(rows, limit), source |-> "recent",
          scored_jobs |-> <<>>]
    ELSE CHOOSE response \in
             {[status |-> 200,
               jobs |-> [i \in 1..Len(page.first) |-> formatted(page.first[i])],
               source |-> "matched", scored_jobs |-> page.items] :
                 page \in {[items |-> items,
                            first |-> slice_to(sort_by_match_score(items), limit)] :
                              items \in {scored_jobs(resume_data(resumes[1]), rows,
                                                     active(rows), year)}}} : TRUE

----------------------------------------------------------------------------
(* Batch ranking over stored records: rank_candidates called on records    *)
(* that may hold None, and match_candidates_to_job of backend/app/main.py, *)
(* which runs the same loop over the public resumes.  Neither loop has an  *)
(* except branch.                                                          *)

\* the first resume of the list on which calculate_match raises, 0 if none
first_failure(resumes, j) ==
    LET failing == {i \in 1..Len(resumes) : raised_by(resumes[i], j) # ""}
    IN IF failing = {} THEN 0 ELSE CHOOSE i \in failing : \A k \in failing : i <= k

rank_candidates_optional(resumes, j, min_score, year) ==
    CHOOSE outcome \in
        {IF i # 0 THEN [raises |-> TRUE, error |-> raised_by(resumes[i], j), at |-> i]
         ELSE [raises |-> FALSE, ret |-> rank_candidates(resumes, j, min_score, year)] :
            i \in {first_failure(resumes, j)}} : TRUE

\* the dictionaries match_candidates_to_job builds: the columns as stored
stored_resume(row) ==
    [skills |-> row.skills, work_experience |-> row.work_experience,
     preferred_location |-> row.preferred_location,
     remote_preference |-> row.remote_preference, keywords |-> row.keywords,
     none |-> row.none]

stored_job(row) ==
    [title |-> row.title, description |-> row.description,
     required_skills |-> row.required_skills,
     nice_to_have_skills |-> row.nice_to_have_skills,
     experience_level |-> row.experience_level, location |-> row.location,
     is_remote |-> row.is_remote, is_hybrid |-> row.is_hybrid,
     keywords |-> row.keywords, none |-> row.none]

\* filter(is_public == 1, is_active == 1): the places of the public resumes
public(rows) ==
    LET places == [k \in 1..Len(rows) |-> k]
    IN SelectSeq(places, LAMBDA k : rows[k].is_public /\ rows[k].is_active)

\* the loop of match_candidates_to_job, the sort and the cut at 50; a resume
\* is named by its place in the table
ranked(rows, j, min_score, year) ==
    LET places == public(rows)
        resumes == [k \in 1..Len(places) |-> stored_resume(rows[places[k]])]
        i == first_failure(resumes, j)
    IN IF i # 0 THEN [raises |-> TRUE, error |-> raised_by(resumes[i], j), at |-> places[i]]
       ELSE [raises |-> FALSE,
             ret |-> sort_by_score(keep([k \in 1..Len(places) |->
                         <<places[k], calculate_match(resumes[k], j, year).result>>],
                         min_score))]

\* an exception that leaves the handler is answered with status 500
match_candidates_to_job(jobs, current_user, rows, min_score, year) ==
    IF jobs = <<>> THEN [status |-> 404, detail |-> "Job not found"]
    ELSE IF jobs[1].posted_by_id # current_user THEN [status |-> 403, detail |-> "Not authorized"]
    ELSE CHOOSE response \in
             {IF outcome.raises THEN [status |-> 500, detail |-> outcome.error, at |-> outcome.at]
              ELSE [status |-> 200, total_matches |-> Len(outcome.ret),
                    candidates |-> [i \in 1..Len(slice_to(outcome.ret, 50)) |->
                        [resume |-> outcome.ret[i][1],
                         match_score |-> outcome.ret[i][2].score,
                         matching_skills |-> outcome.ret[i][2].matching_skills,
                         missing_skills |-> outcome.ret[i][2].missing_skills,
                         match_reasons |-> outcome.ret[i][2].reasons]]] :
                 outcome \in {ranked(rows, stored_job(jobs[1]), min_score, year)}} : TRUE

----------------------------------------------------------------------------
(* Records and calls.                                                      *)

NoCall == [fn |-> "none"]

EmptyResume ==
    [skills |-> <<>>, work_experience |-> <<>>, preferred_location |-> <<>>,
     remote_preference |-> "any", keywords |-> <<>>]

EmptyJob ==
    [title |-> <<>>, description |-> <<>>, required_skills |-> <<>>,
     nice_to_have_skills |-> <<>>, experience_level |-> <<>>, location |-> <<>>,
     is_remote |-> FALSE, is_hybrid |-> FALSE, keywords |-> <<>>]

SeqsUpTo(S, n) == UNION {[1..k -> S] : k \in 0..n}

\* JobResumeMatcher.__init__ and the clock at start
FirstYear == 2025
InitMatcher ==
    /\ skill_weights = [required |-> 2, nice_to_have |-> 1]
    /\ now_year = FirstYear
    /\ call = NoCall
    /\ prev = NoCall

----------------------------------------------------------------------------
(* Calls of _skill_matches on pairs of strings.                            *)

SkillStrings ==
    {s_empty, s_js, s_JS, s_JavaScript, s_java, s_Python_padded, s_py, s_ts,
     s_ml, s_machine_learning, s_Docker, s_react_js}

CallSkillMatches ==
    \E a \in SkillStrings, b \in SkillStrings :
        /\ call' = [fn |-> "_skill_matches", args |-> <<a, b>>,
                    ret |-> skill_matches(a, b)]
        /\ UNCHANGED <<skill_weights, now_year, resume, job, prev>>

InitSkillMatches == InitMatcher /\ resume = EmptyResume /\ job = EmptyJob
NextSkillMatches == CallSkillMatches
SpecSkillMatches == InitSkillMatches /\ [][NextSkillMatches]_vars

----------------------------------------------------------------------------
(* Calls of _calculate_skills_match, and a candidate adding a skill.       *)

MaxResumeSkills == 2
MaxRequiredSkills == 2
MaxNiceToHaveSkills == 1

ResumeSkillPool == {s_JS, s_Python_padded, s_java, s_empty, s_blank}
RequiredSkillPool == {s_JavaScript, s_python}
NiceToHaveSkillPool == {s_python, s_Docker}

CalculateSkillsMatch ==
    /\ call' = [fn |-> "_calculate_skills_match",
                args |-> <<resume.skills, job.required_skills, job.nice_to_have_skills>>,
                ret |-> calculate_skills_match(resume.skills, job.required_skills,
                                               job.nice_to_have_skills)]
    /\ prev' = call
    /\ UNCHANGED <<skill_weights, now_year, resume, job>>

\* the candidate's resume gains one skill (update_resume, field 'skills'),
\* here once the resume as it stands has been scored
AddResumeSkill ==
    /\ Len(resume.skills) < MaxResumeSkills
    /\ call.fn = "_calculate_skills_match"
    /\ call.args[1] = resume.skills
    /\ \E s \in ResumeSkillPool :
           resume' = [resume EXCEPT !.skills = Append(@, s)]
    /\ UNCHANGED <<skill_weights, now_year, job, call, prev>>

InitSkills ==
    /\ InitMatcher
    /\ \E rs \in SeqsUpTo(ResumeSkillPool, MaxResumeSkills) :
           resume = [EmptyResume EXCEPT !.skills = rs]
    /\ \E req \in SeqsUpTo(RequiredSkillPool, MaxRequiredSkills),
          nice \in SeqsUpTo(NiceToHaveSkillPool, MaxNiceToHaveSkills) :
           job = [EmptyJob EXCEPT !.required_skills = req, !.nice_to_have_skills = nice]
NextSkills == CalculateSkillsMatch \/ AddResumeSkill
SpecSkills == InitSkills /\ [][NextSkills]_vars

----------------------------------------------------------------------------
(* The clock.                                                              *)

MaxTicks == 1

\* a new calendar year begins
Tick ==
    /\ now_year < FirstYear + MaxTicks
    /\ now_year' = now_year + 1
    /\ UNCHANGED <<skill_weights, resume, job, call, prev>>

----------------------------------------------------------------------------
(* Calls of _calculate_experience_match.                                   *)

Entry(title, start_date, end_date, is_current) ==
    [title |-> title, start_date |-> start_date, end_date |-> end_date,
     is_current |-> is_current]

MaxWorkExperience == 2

WorkEntryPool ==
    {Entry(<<>>, d_2024, d_2025, FALSE),       \* one year
     Entry(<<>>, d_2020_03, d_2023_11, FALSE), \* three years
     Entry(<<>>, d_2018, <<>>, FALSE),         \* open-ended
     Entry(<<>>, d_2013_01, d_2020, TRUE),     \* current
     Entry(<<>>, d_1970, <<>>, TRUE),          \* current, five decades
     Entry(<<>>, d_n_a, d_2020, FALSE),        \* malformed start
     Entry(<<>>, d_2020, d_n_a, FALSE),        \* malformed end
     Entry(<<>>, d_2020, d_n_a, TRUE),         \* current, end not a date
     Entry(<<>>, d_2022, d_2020, FALSE),       \* ends before it starts
     Entry(<<>>, d_2020, d_2020_03, FALSE)}    \* starts and ends in one year

LevelPool == {s_empty, s_entry, s_mid, s_Senior, s_lead, s_executive, s_guru}

CalculateExperienceMatch ==
    /\ call' = [fn |-> "_calculate_experience_match",
                args |-> <<resume.work_experience, job.experience_level>>,
                year |-> now_year,
                ret |-> calculate_experience_match(resume.work_experience,
                                                   job.experience_level, now_year)]
    /\ UNCHANGED <<skill_weights, now_year, resume, job, prev>>

InitExperience ==
    /\ InitMatcher
    /\ \E we \in SeqsUpTo(WorkEntryPool, MaxWorkExperience) :
           resume = [EmptyResume EXCEPT !.work_experience = we]
    /\ \E level \in LevelPool :
           job = [EmptyJob EXCEPT !.experience_level = level]
NextExperience == CalculateExperienceMatch \/ Tick
SpecExperience == InitExperience /\ [][NextExperience]_vars

----------------------------------------------------------------------------
(* Calls of calculate_match.                                               *)

ResumeSkillLists ==
    {<<>>, <<s_Python>>, <<s_JS, s_Python_padded, s_Docker, s_AWS>>}
JobSkillLists ==   \* <<required_skills, nice_to_have_skills>>
    {<< <<>>, <<>> >>,
     << <<s_JavaScript>>, <<s_python>> >>,
     << <<s_JavaScript, s_python, s_Docker, s_aws, s_react>>, <<>> >>}
WorkHistories ==
    {<<>>,
     <<Entry(s_Data_Analyst, d_2013_01, d_2025, FALSE)>>,
     <<Entry(s_Backend_Engineer, d_2020_03, d_2023_11, FALSE),
       Entry(s_Senior_Backend_Engineer, d_2024, <<>>, TRUE)>>}
JobLevels == {s_empty, s_Senior, s_lead}
JobTitles == {s_empty, s_backend_engineer}
ResumeLocations ==   \* <<preferred_location, remote_preference>>
    {<<s_Austin_TX, "any">>, <<s_empty, "remote">>}
JobLocations ==      \* <<location, is_remote, is_hybrid>>
    {<<s_Dallas_TX, FALSE, FALSE>>, <<s_Remote, TRUE, FALSE>>}
ResumeKeywordLists == {<<>>, <<s_Python, s_REST>>}
JobKeywords ==       \* <<keywords, description>>
    {<< <<>>, <<>> >>, << <<s_python>>, s_description >>}

CalculateMatch ==
    /\ LET m == calculate_match(resume, job, now_year)
       IN call' = [fn |-> "calculate_match", resume |-> resume, job |-> job,
                   year |-> now_year, ret |-> m.result, locals |-> m.locals]
    /\ prev' = call
    /\ UNCHANGED <<skill_weights, now_year, resume, job>>

InitMatch ==
    /\ InitMatcher
    /\ \E skills \in ResumeSkillLists, we \in WorkHistories,
          loc \in ResumeLocations, kw \in ResumeKeywordLists :
           resume = [skills |-> skills, work_experience |-> we,
                     preferred_location |-> loc[1], remote_preference |-> loc[2],
                     keywords |-> kw]
    /\ \E skills \in JobSkillLists, level \in JobLevels, title \in JobTitles,
          loc \in JobLocations, kw \in JobKeywords :
           job = [title |-> title, description |-> kw[2],
                  required_skills |-> skills[1], nice_to_have_skills |-> skills[2],
                  experience_level |-> level, location |-> loc[1],
                  is_remote |-> loc[2], is_hybrid |-> loc[3], keywords |-> kw[1]]
Next == CalculateMatch \/ Tick
Spec == InitMatch /\ [][Next]_vars

----------------------------------------------------------------------------
(* Calls of the location, keyword and title sub-scorers.                   *)

LocationPool ==
    {s_empty, s_Austin_TX, s_Dallas_TX, s_Waco_TX, s_Paris_FR, s_austin, s_Remote}
PreferencePool == {"remote", "hybrid", "onsite", "any"}

CalculateLocationMatch ==
    \E preferred_location \in LocationPool, remote_preference \in PreferencePool,
       job_location \in LocationPool, is_remote \in BOOLEAN, is_hybrid \in BOOLEAN :
        /\ call' = [fn |-> "_calculate_location_match",
                    args |-> <<preferred_location, remote_preference, job_location,
                               is_remote, is_hybrid>>,
                    ret |-> calculate_location_match(preferred_location,
                                remote_preference, job_location, is_remote, is_hybrid)]
        /\ UNCHANGED <<skill_weights, now_year, resume, job, prev>>

ResumeKeywordPool == {<<>>, <<s_Python, s_REST>>, <<s_Python, s_python>>, <<s_guru>>}
JobKeywordPool == {<<>>, <<s_python>>, <<s_python, s_Python>>, <<s_REST, s_Docker>>}
DescriptionPool == {s_empty, s_description, d_n_a}

CalculateKeywordMatch ==
    \E resume_keywords \in ResumeKeywordPool, job_keywords \in JobKeywordPool,
       job_description \in DescriptionPool :
        /\ call' = [fn |-> "_calculate_keyword_match",
                    args |-> <<resume_keywords, job_keywords, job_description>>,
                    ret |-> calculate_keyword_match(resume_keywords, job_keywords,
                                                    job_description)]
        /\ UNCHANGED <<skill_weights, now_year, resume, job, prev>>

RoleTitlePool ==
    {s_empty, s_Backend_Engineer, s_Senior_Backend_Engineer, s_Data_Engineer,
     s_Backend_Engineer_trailing}
JobTitlePool == {s_empty, s_backend_engineer, s_Data_Analyst}

CalculateTitleMatch ==
    \E titles \in SeqsUpTo(RoleTitlePool, MaxWorkExperience), job_title \in JobTitlePool :
        LET work_experience ==
                [i \in 1..Len(titles) |-> Entry(titles[i], d_2020, d_2022, FALSE)]
        IN /\ call' = [fn |-> "_calculate_title_match",
                       args |-> <<work_experience, job_title>>,
                       ret |-> calculate_title_match(work_experience, job_title)]
           /\ UNCHANGED <<skill_weights, now_year, resume, job, prev>>

InitSubScores == InitMatcher /\ resume = EmptyResume /\ job = EmptyJob
NextSubScores == CalculateLocationMatch \/ CalculateKeywordMatch \/ CalculateTitleMatch
SpecSubScores == InitSubScores /\ [][NextSubScores]_vars

----------------------------------------------------------------------------
(* Calls of rank_candidates and find_matching_jobs on lists of resumes and *)
(* of jobs; `resume` and `job` hold the two lists.                         *)

MaxResumes == 3

RankResumePool ==
    {[EmptyResume EXCEPT !.skills = <<s_Python>>],
     [EmptyResume EXCEPT !.skills = <<s_Python_padded>>],
     [EmptyResume EXCEPT !.skills = <<s_JS, s_Python_padded>>]}
RankJobPool ==
    {[EmptyJob EXCEPT !.required_skills = <<s_JavaScript, s_python>>],
     [EmptyJob EXCEPT !.required_skills = <<s_python>>, !.nice_to_have_skills = <<s_Docker>>]}
RankJobLists ==
    {<<j>> : j \in RankJobPool} \cup {<<j1, j2>> : j1, j2 \in RankJobPool}
MinScorePool == {0, 720, 865}   \* tenths: 0, 72.0 and 86.5

\* the matcher's fields and the two lists as a call finds them
Before == [skill_weights |-> skill_weights, resume |-> resume, job |-> job]

RankCandidates ==
    \E k \in 1..Len(job), min_score \in MinScorePool :
        \E e \in {batch_effect(resume, rank_candidates(resume, job[k], min_score, now_year))} :
            /\ call' = [fn |-> "rank_candidates",
                        args |-> <<resume, job[k], min_score>>,
                        year |-> now_year, before |-> Before,
                        ret |-> e.ret, fresh |-> e.fresh]
            /\ resume' = e.items
            /\ UNCHANGED <<skill_weights, now_year, job, prev>>

FindMatchingJobs ==
    \E k \in 1..Len(resume), min_score \in MinScorePool :
        \E e \in {batch_effect(job, find_matching_jobs(resume[k], job, min_score, now_year))} :
            /\ call' = [fn |-> "find_matching_jobs",
                        args |-> <<resume[k], job, min_score>>,
                        year |-> now_year, before |-> Before,
                        ret |-> e.ret, fresh |-> e.fresh]
            /\ job' = e.items
            /\ UNCHANGED <<skill_weights, now_year, resume, prev>>

InitRank ==
    /\ InitMatcher
    /\ resume \in SeqsUpTo(RankResumePool, MaxResumes)
    /\ job \in RankJobLists
NextRank == RankCandidates \/ FindMatchingJobs
SpecRank == InitRank /\ [][NextRank]_vars

----------------------------------------------------------------------------
(* Calls of calculate_match by apply_to_job, which hands over the columns  *)
(* of the resume and the job as they are stored, None included.            *)

WithNone(record, keys) ==
    [key \in DOMAIN record \cup {"none"} |->
        IF key = "none" THEN keys
        ELSE IF key \in keys THEN <<>>
        ELSE record[key]]

StoredEntries ==
    {WithNone(Entry(s_Senior_Backend_Engineer, d_2020, d_2022, FALSE), keys) :
        keys \in SUBSET {"title", "start_date", "end_date"}}
StoredHistories ==
    {<<e>> : e \in StoredEntries}
    \cup {<<WithNone(Entry(s_Backend_Engineer, d_2018, d_2020, FALSE), {}),
            WithNone(Entry(<<>>, d_2020, d_2022, FALSE), {"title"})>>}
StoredResumes ==
    {WithNone([skills |-> <<s_Python>>, work_experience |-> we,
               preferred_location |-> s_Austin_TX, remote_preference |-> "any",
               keywords |-> <<s_Python>>], keys) :
        we \in StoredHistories,
        keys \in SUBSET {"skills", "work_experience", "preferred_location", "keywords"}}
StoredJobs ==
    {WithNone([title |-> s_backend_engineer, description |-> s_description,
               required_skills |-> required_skills,
               nice_to_have_skills |-> <<s_Docker>>, experience_level |-> s_Senior,
               location |-> s_Dallas_TX, is_remote |-> FALSE, is_hybrid |-> FALSE,
               keywords |-> <<s_python>>], keys) :
        required_skills \in {<<>>, <<s_python>>},
        keys \in SUBSET {"title", "description", "required_skills",
                         "nice_to_have_skills", "experience_level", "location",
                         "keywords"}}

ApplyToJob ==
    /\ call' = [fn |-> "apply_to_job", resume |-> resume, job |-> job,
                year |-> now_year,
                ret |-> calculate_match_optional(resume, job, now_year)]
    /\ UNCHANGED <<skill_weights, now_year, resume, job, prev>>

InitStored ==
    /\ InitMatcher
    /\ resume \in StoredResumes
    /\ job \in StoredJobs
SpecStored == InitStored /\ [][ApplyToJob]_vars

----------------------------------------------------------------------------
(* Concurrent calls of calculate_match on the singleton `matcher`, one     *)
(* statement of calculate_match at a time.  `resume` and `job` hold the    *)
(* arguments of each thread; `call` holds, for each thread, its position   *)
(* and result, and the local variables of each frame.                      *)

NumThreads == 2
Threads == 1..NumThreads

SampleResumePool ==
    {[EmptyResume EXCEPT !.skills = <<s_Python>>],
     [skills |-> <<s_JS, s_Python_padded>>,
      work_experience |-> <<Entry(s_Backend_Engineer, d_2020_03, d_2023_11, FALSE)>>,
      preferred_location |-> s_empty, remote_preference |-> "remote",
      keywords |-> <<s_Python, s_REST>>]}
SampleJobPool ==
    {[EmptyJob EXCEPT !.required_skills = <<s_python>>],
     [title |-> s_backend_engineer, description |-> s_description,
      required_skills |-> <<s_JavaScript, s_python>>, nice_to_have_skills |-> <<s_Docker>>,
      experience_level |-> s_Senior, location |-> s_Dallas_TX,
      is_remote |-> FALSE, is_hybrid |-> FALSE, keywords |-> <<s_python>>]}

\* the frame in which thread t keeps the locals of its call: every call of a
\* Python function has a frame of its own
frame_shared(t) == 1
frame(t) == t

\* a new frame; no local is read before the statement that assigns it
NoFrame ==
    [skills |-> <<Whole(0), <<>>, <<>>>>, experience_score |-> Whole(0),
     location_score |-> Whole(0), keyword_score |-> Whole(0),
     title_score |-> Whole(0)]

Advance(t, from, to, frames) ==
    /\ call.pc[t] \in from
    /\ call' = [call EXCEPT !.pc[t] = to, !.frames = frames]
    /\ UNCHANGED <<skill_weights, now_year, resume, job, prev>>

\* matcher.calculate_match(resume, job) is entered
Enter(t) ==
    Advance(t, {"idle", "done"}, "skills", [call.frames EXCEPT ![frame(t)] = NoFrame])

StepSkills(t) ==
    Advance(t, {"skills"}, "experience",
            [call.frames EXCEPT ![frame(t)].skills =
                calculate_skills_match(resume[t].skills, job[t].required_skills,
                                       job[t].nice_to_have_skills)])

StepExperience(t) ==
    Advance(t, {"experience"}, "location",
            [call.frames EXCEPT ![frame(t)].experience_score =
                calculate_experience_match(resume[t].work_experience,
                                           job[t].experience_level, now_year)])

StepLocation(t) ==
    Advance(t, {"location"}, "keyword",
            [call.frames EXCEPT ![frame(t)].location_score =
                Whole(calculate_location_match(resume[t].preferred_location,
                          resume[t].remote_preference, job[t].location,
                          job[t].is_remote, job[t].is_hybrid))])

StepKeyword(t) ==
    Advance(t, {"keyword"}, "title",
            [call.frames EXCEPT ![frame(t)].keyword_score =
                calculate_keyword_match(resume[t].keywords, job[t].keywords,
                                        job[t].description)])

StepTitle(t) ==
    Advance(t, {"title"}, "return",
            [call.frames EXCEPT ![frame(t)].title_score =
                calculate_title_match(resume[t].work_experience, job[t].title)])

\* the weighted total, the boost and the MatchResult, from the locals
Return(t) ==
    /\ call.pc[t] = "return"
    /\ \E f \in {call.frames[frame(t)]} :
           call' = [call EXCEPT
                       !.pc[t] = "done",
                       !.ret[t] = match_result(f.skills, f.experience_score,
                                      f.location_score, f.keyword_score,
                                      f.title_score, job[t].required_skills).result]
    /\ UNCHANGED <<skill_weights, now_year, resume, job, prev>>

InitThreads ==
    /\ skill_weights = [required |-> 2, nice_to_have |-> 1]
    /\ now_year = FirstYear
    /\ prev = NoCall
    /\ resume \in [Threads -> SampleResumePool]
    /\ job \in [Threads -> SampleJobPool]
    /\ call = [fn |-> "calculate_match", pc |-> [t \in Threads |-> "idle"],
               frames |-> [t \in Threads |-> NoFrame],
               ret |-> [t \in Threads |-> <<>>]]
NextThreads ==
    \E t \in Threads :
        \/ Enter(t)
        \/ StepSkills(t)
        \/ StepExperience(t)
        \/ StepLocation(t)
        \/ StepKeyword(t)
        \/ StepTitle(t)
        \/ Return(t)
SpecThreads == InitThreads /\ [][NextThreads]_vars

----------------------------------------------------------------------------
(* Requests of GET /jobs/recommended.  `resume` holds the resume rows of   *)
(* the user, none or one, and `job` the jobs table.                        *)

MaxJobRows == 3

ResumeRows ==
    {WithNone([skills |-> <<s_Python>>,
               work_experience |-> <<WithNone(Entry(s_Backend_Engineer, d_2020, d_2022, FALSE), keys)>>,
               preferred_location |-> s_Austin_TX, remote_preference |-> "any",
               keywords |-> <<s_Python>>], {}) : keys \in {{}, {"title"}}}
    \cup {WithNone([skills |-> <<>>,
                    work_experience |-> <<WithNone(Entry(<<>>, d_2020, d_2022, FALSE), {"title"})>>,
                    preferred_location |-> <<>>, remote_preference |-> "",
                    keywords |-> <<s_Python>>], {"skills", "preferred_location"})}
    \cup {WithNone([skills |-> <<>>,
                    work_experience |-> <<WithNone(Entry(s_Data_Analyst, d_2020, d_2020_03, FALSE), {})>>,
                    preferred_location |-> <<>>, remote_preference |-> "remote",
                    keywords |-> <<>>], {"keywords"})}

JobColumns ==
    {WithNone([title |-> s_backend_engineer, description |-> s_description,
               required_skills |-> <<s_JavaScript, s_python>>,
               nice_to_have_skills |-> <<s_Docker>>, experience_level |-> s_Senior,
               location |-> s_Dallas_TX, is_remote |-> FALSE, is_hybrid |-> FALSE,
               keywords |-> <<s_python>>], keys) : keys \in {{}, {"title", "nice_to_have_skills"}}}
    \cup {WithNone([EmptyJob EXCEPT !.required_skills = <<s_python>>], {})}

JobRows ==
    {[key \in DOMAIN columns \cup {"status"} |->
         IF key = "status" THEN status ELSE columns[key]] :
        columns \in JobColumns, status \in {"active"}}
    \cup {[key \in DOMAIN columns \cup {"status"} |->
              IF key = "status" THEN "closed" ELSE columns[key]] :
             columns \in {WithNone([EmptyJob EXCEPT !.required_skills = <<s_python>>], {})}}

LimitPool == {-1, 0, 1, 2, 10}

\* a negative limit reaches the database only in the branch without resume,
\* where what LIMIT does with it depends on the database: left out
GetRecommendedJobs ==
    \E limit \in LimitPool :
        /\ resume = <<>> => limit >= 0
        /\ call' = [fn |-> "get_recommended_jobs",
                    args |-> [resume |-> resume, job |-> job, limit |-> limit],
                    year |-> now_year,
                    ret |-> get_recommended_jobs(resume, job, limit, now_year)]
        /\ UNCHANGED <<skill_weights, now_year, resume, job, prev>>

InitRecommend ==
    /\ InitMatcher
    /\ resume \in SeqsUpTo(ResumeRows, 1)
    /\ job \in SeqsUpTo(JobRows, MaxJobRows)
SpecRecommend == InitRecommend /\ [][GetRecommendedJobs]_vars

----------------------------------------------------------------------------
(* Batch ranking over stored records.  `resume` holds the resumes table    *)
(* and `job` the job found by its id, if any; user 1 makes the requests.   *)

MaxCandidates == 3

CandidateRows ==
    {[key \in DOMAIN columns \cup {"is_public", "is_active"} |->
         IF key \in {"is_public", "is_active"} THEN TRUE ELSE columns[key]] :
        columns \in
            {WithNone([EmptyResume EXCEPT !.skills = <<s_Python>>], {}),
             WithNone([EmptyResume EXCEPT !.skills = <<s_JS, s_Python_padded>>], {}),
             WithNone(EmptyResume, {"skills"})}}
    \cup {[key \in DOMAIN columns \cup {"is_public", "is_active"} |->
              IF key = "is_active" THEN TRUE
              ELSE IF key = "is_public" THEN FALSE ELSE columns[key]] :
             columns \in {WithNone(EmptyResume, {"skills"})}}

PostedJobs ==
    {[key \in DOMAIN columns \cup {"posted_by_id"} |->
         IF key = "posted_by_id" THEN 1 ELSE columns[key]] :
        columns \in
            {WithNone([EmptyJob EXCEPT !.required_skills = <<s_JavaScript, s_python>>], {}),
             WithNone([EmptyJob EXCEPT !.title = s_backend_engineer], {"keywords"})}}
    \cup {[key \in DOMAIN columns \cup {"posted_by_id"} |->
              IF key = "posted_by_id" THEN 2 ELSE columns[key]] :
             columns \in {WithNone([EmptyJob EXCEPT !.required_skills = <<s_python>>], {})}}

BatchMinScores == {0, 500}   \* tenths: 0 and the default 50 of the endpoint

RankStoredCandidates ==
    \E min_score \in BatchMinScores :
        /\ job # <<>>
        /\ call' = [fn |-> "rank_candidates",
                    args |-> [resumes |-> resume, job |-> job[1], min_score |-> min_score],
                    year |-> now_year,
                    ret |-> rank_candidates_optional(
                                [k \in 1..Len(resume) |-> stored_resume(resume[k])],
                                stored_job(job[1]), min_score, now_year)]
        /\ UNCHANGED <<skill_weights, now_year, resume, job, prev>>

MatchCandidatesToJob ==
    \E min_score \in BatchMinScores :
        /\ call' = [fn |-> "match_candidates_to_job",
                    args |-> [resumes |-> resume, job |-> job, min_score |-> min_score],
                    year |-> now_year,
                    ret |-> match_candidates_to_job(job, 1, resume, min_score, now_year)]
        /\ UNCHANGED <<skill_weights, now_year, resume, job, prev>>

InitBatch ==
    /\ InitMatcher
    /\ resume \in SeqsUpTo(CandidateRows, MaxCandidates)
    /\ job \in SeqsUpTo(PostedJobs, 1)
NextBatch == RankStoredCandidates \/ MatchCandidatesToJob
SpecBatch == InitBatch /\ [][NextBatch]_vars

----------------------------------------------------------------------------
(* Requests of POST /applications, one statement of apply_to_job at a time. *)
(* The handler is a plain `def`, so the server runs each request on a      *)
(* thread of its pool, with a database session of its own (get_db).  `job` *)
(* holds the jobs table and `resume` the resumes table, as committed;      *)
(* `call` holds the job_applications table as committed and, for each      *)
(* thread, the position and the locals of its request.  A session reads    *)
(* committed rows, keeps the objects it loaded as it read them, and writes *)
(* at db.commit(): autoflush is off.  A job is named by its place in the   *)
(* jobs table.  No column of job_applications is declared unique.          *)

WithColumns(columns, more) ==
    [key \in DOMAIN columns \cup DOMAIN more |->
        IF key \in DOMAIN more THEN more[key] ELSE columns[key]]

JobsTable ==
    <<WithColumns(WithNone([EmptyJob EXCEPT !.required_skills = <<s_python>>], {}),
                  [status |-> "active", applications_count |-> 0]),
      WithColumns(WithNone(EmptyJob, {}),
                  [status |-> "closed", applications_count |-> 0])>>

ResumesTable ==
    <<WithColumns(WithNone([EmptyResume EXCEPT !.skills = <<s_Python>>], {}),
                  [user_id |-> 1]),
      WithColumns(WithNone([EmptyResume EXCEPT !.skills = <<s_JS>>], {}),
                  [user_id |-> 3])>>

\* current_user.id and req.job_id of the requests: user 2 has no resume, job
\* 2 is closed and job 3 does not exist
ApplicationRequests ==
    {[current_user |-> 1, job_id |-> 1], [current_user |-> 3, job_id |-> 1],
     [current_user |-> 2, job_id |-> 1], [current_user |-> 1, job_id |-> 2],
     [current_user |-> 1, job_id |-> 3]}

NoRequest ==
    [pc |-> "idle", current_user |-> 0, job_id |-> 0, applications_count |-> 0,
     resume |-> 0, match_score |-> 0, status |-> 0, detail |-> ""]

\* filter(Job.id == job_id, Job.status == "active").first(): the place, 0 if none
active_job(jobs, job_id) ==
    IF job_id \in 1..Len(jobs) /\ jobs[job_id].status = "active" THEN job_id ELSE 0

\* filter(Resume.user_id == user).first(): the place, 0 if none
resume_of(rows, user) ==
    LET places == {k \in 1..Len(rows) : rows[k].user_id = user}
    IN IF places = {} THEN 0 ELSE CHOOSE k \in places : \A other \in places : k <= other

\* filter(job_id == ..., candidate_id == ...).first() is not None
existing(applications, job_id, candidate_id) ==
    \E i \in 1..Len(applications) :
        /\ applications[i].job_id = job_id
        /\ applications[i].candidate_id = candidate_id

Request(t, from, next) ==
    /\ call.pc[t].pc \in from
    /\ call' = [call EXCEPT !.pc[t] = next]
    /\ UNCHANGED <<skill_weights, now_year, resume, job, prev>>

Rejected(request, status, detail) ==
    [request EXCEPT !.pc = "done", !.status = status, !.detail = detail]

ReceiveApplication(t) ==
    \E req \in ApplicationRequests :
        Request(t, {"idle", "done"},
                [NoRequest EXCEPT !.pc = "job", !.current_user = req.current_user,
                                  !.job_id = req.job_id])

\* the Job object is loaded with the applications_count committed at this time
QueryJob(t) ==
    Request(t, {"job"},
            IF active_job(job, call.pc[t].job_id) = 0
            THEN Rejected(call.pc[t], 404, "Job not found or not active")
            ELSE [call.pc[t] EXCEPT !.pc = "resume",
                      !.applications_count = job[call.pc[t].job_id].applications_count])

QueryResume(t) ==
    Request(t, {"resume"},
            IF resume_of(resume, call.pc[t].current_user) = 0
            THEN Rejected(call.pc[t], 400, "Create a resume before applying")
            ELSE [call.pc[t] EXCEPT !.pc = "existing",
                      !.resume = resume_of(resume, call.pc[t].current_user)])

QueryExisting(t) ==
    Request(t, {"existing"},
            IF existing(call.applications, call.pc[t].job_id, call.pc[t].current_user)
            THEN Rejected(call.pc[t], 400, "Already applied to this job")
            ELSE [call.pc[t] EXCEPT !.pc = "match"])

\* matcher.calculate_match on the columns as stored; an exception leaves the
\* handler and is answered with status 500
ScoreApplication(t) ==
    /\ call.pc[t].pc = "match"
    /\ \E outcome \in {calculate_match_optional(
                           stored_resume(resume[call.pc[t].resume]),
                           stored_job(job[call.pc[t].job_id]), now_year)} :
           call' = [call EXCEPT !.pc[t] =
                       IF outcome.raises THEN Rejected(@, 500, outcome.error)
                       ELSE [@ EXCEPT !.pc = "add",
                                      !.match_score = outcome.result.score]]
    /\ UNCHANGED <<skill_weights, now_year, resume, job, prev>>

\* db.add(application); job.applications_count += 1: on the objects of the
\* session, nothing is written yet
AddApplication(t) ==
    Request(t, {"add"},
            [call.pc[t] EXCEPT !.pc = "commit",
                               !.applications_count = @ + 1])

\* db.commit(): INSERT of the application, UPDATE of the job's count to the
\* value the session holds
CommitApplication(t) ==
    /\ call.pc[t].pc = "commit"
    /\ call' = [call EXCEPT
                   !.applications = Append(@,
                       [job_id |-> call.pc[t].job_id,
                        candidate_id |-> call.pc[t].current_user,
                        resume_id |-> call.pc[t].resume,
                        match_score |-> call.pc[t].match_score]),
                   !.pc[t] = [@ EXCEPT !.pc = "done", !.status = 200,
                                  !.detail = "Application submitted successfully"]]
    /\ job' = [job EXCEPT ![call.pc[t].job_id].applications_count =
                              call.pc[t].applications_count]
    /\ UNCHANGED <<skill_weights, now_year, resume, prev>>

InitApply ==
    /\ skill_weights = [required |-> 2, nice_to_have |-> 1]
    /\ now_year = FirstYear
    /\ prev = NoCall
    /\ resume = ResumesTable
    /\ job = JobsTable
    /\ call = [fn |-> "apply_to_job", applications |-> <<>>,
               pc |-> [t \in Threads |-> NoRequest]]
NextApply ==
    \E t \in Threads :
        \/ ReceiveApplication(t)
        \/ QueryJob(t)
        \/ QueryResume(t)
        \/ QueryExisting(t)
        \/ ScoreApplication(t)
        \/ AddApplication(t)
        \/ CommitApplication(t)
SpecApply == InitApply /\ [][NextApply]_vars

----------------------------------------------------------------------------
(* Properties of _calculate_skills_match, under SpecSkills.                *)

SkillsCalled == call.fn = "_calculate_skills_match"
Count(x, s) == Cardinality({i \in 1..Len(s) : s[i] = x})
HasCounterpart(skill, resume_skills) ==
    \E k \in 1..Len(resume_skills) : skill_matches(skill, resume_skills[k])

\* C5: every required skill is in exactly one of matching_skills and
\* missing_skills: in matching_skills when some resume skill matches it, in
\* missing_skills otherwise; missing_skills holds nothing but required skills.
C5_Partition ==
    SkillsCalled =>
        LET resume_skills == call.args[1]
            required_skills == call.args[2]
            matched == call.ret[2]
            missing == call.ret[3]
        IN /\ \A i \in 1..Len(required_skills) :
                  LET skill == required_skills[i]
                  IN IF HasCounterpart(skill, resume_skills)
                     THEN InSeq(skill, matched) /\ ~InSeq(skill, missing)
                     ELSE InSeq(skill, missing) /\ ~InSeq(skill, matched)
           /\ \A i \in 1..Len(missing) : InSeq(missing[i], required_skills)

\* a call with one required skill matched, one required skill missing and
\* an unmatched nice-to-have skill
C5_Witness ==
    /\ SkillsCalled
    /\ Len(call.args[2]) = 2
    /\ Len(call.ret[2]) = 1
    /\ Len(call.ret[3]) = 1
    /\ call.args[3] # <<>>
    /\ ~HasCounterpart(call.args[3][1], call.args[1])

\* C6 as stated: no skill string occurs more than once in matching_skills.
C6_NoDuplicates ==
    SkillsCalled =>
        \A i, k \in 1..Len(call.ret[2]) : i # k => call.ret[2][i] # call.ret[2][k]

\* C6 amended: matching_skills holds one entry for each matched occurrence in
\* required_skills and nice_to_have_skills; a string occurs in it as often as
\* it is listed in the two job lists when a resume skill matches it, and
\* never otherwise.
C6_OneEntryPerOccurrence ==
    SkillsCalled =>
        \A skill \in RequiredSkillPool \cup NiceToHaveSkillPool :
            Count(skill, call.ret[2]) =
                IF HasCounterpart(skill, call.args[1])
                THEN Count(skill, call.args[2]) + Count(skill, call.args[3])
                ELSE 0

\* a matched skill listed as required and as nice-to-have: it is returned twice
C6_Witness ==
    /\ SkillsCalled
    /\ \E skill \in RequiredSkillPool :
           /\ InSeq(skill, call.args[2])
           /\ InSeq(skill, call.args[3])
           /\ Count(skill, call.ret[2]) = 2

\* C7: the skills sub-score is 100 * (2 * matched required + matched
\* nice-to-have) / (2 * required + nice-to-have); with both job lists empty it
\* is 100 and matched and missing are empty, whatever the resume's skills.
C7_SkillsScore ==
    SkillsCalled =>
        LET resume_skills == call.args[1]
            required_skills == call.args[2]
            nice_to_have_skills == call.args[3]
            n_required == Cardinality({i \in 1..Len(required_skills) :
                              HasCounterpart(required_skills[i], resume_skills)})
            n_nice == Cardinality({i \in 1..Len(nice_to_have_skills) :
                          HasCounterpart(nice_to_have_skills[i], resume_skills)})
            denominator == 2 * Len(required_skills) + Len(nice_to_have_skills)
        IN IF required_skills = <<>> /\ nice_to_have_skills = <<>>
           THEN call.ret = <<Whole(100), <<>>, <<>>>>
           ELSE call.ret[1][1] * denominator
                    = 100 * (2 * n_required + n_nice) * call.ret[1][2]

\* a call whose score lies strictly between 0 and 100 with a required and a
\* nice-to-have skill matched and a required skill missing
C7_Witness ==
    /\ SkillsCalled
    /\ call.args[3] # <<>>
    /\ Len(call.ret[2]) = 2
    /\ Len(call.ret[3]) = 1
    /\ call.ret[1] = Rat(300, 5)

\* C9: when a required skill is missing and the resume gains a skill that
\* matches it, the skills sub-score strictly increases, the skill moves from
\* missing_skills to matching_skills and no skill leaves matching_skills.
GainedSkill ==
    /\ SkillsCalled
    /\ prev.fn = "_calculate_skills_match"
    /\ prev.args[2] = call.args[2]
    /\ prev.args[3] = call.args[3]
    /\ call.args[1] # <<>>
    /\ prev.args[1] = SubSeq(call.args[1], 1, Len(call.args[1]) - 1)
NowCovered(skill) ==
    /\ InSeq(skill, prev.ret[3])
    /\ skill_matches(skill, call.args[1][Len(call.args[1])])
C9_Monotonic ==
    GainedSkill =>
        \A skill \in RequiredSkillPool :
            NowCovered(skill) =>
                /\ RatLt(prev.ret[1], call.ret[1])
                /\ InSeq(skill, call.ret[2])
                /\ ~InSeq(skill, call.ret[3])
                /\ \A other \in RequiredSkillPool \cup NiceToHaveSkillPool :
                       Count(other, call.ret[2]) >= Count(other, prev.ret[2])

\* a resume that already matched another skill gains the counterpart of a
\* missing required skill
C9_Witness ==
    /\ GainedSkill
    /\ prev.ret[2] # <<>>
    /\ \E skill \in RequiredSkillPool : NowCovered(skill)

\* the places of a skill list whose skill some resume skill matches
Covered(skills, resume_skills) ==
    {i \in 1..Len(skills) : HasCounterpart(skills[i], resume_skills)}

\* the n-th place of a set of places, counting upwards
NthPlace(places, n) == CHOOSE i \in places : Cardinality({k \in places : k < i}) = n - 1

\* C22: matching_skills holds the matched required skills in the order of
\* required_skills, then the matched nice-to-have skills in the order of
\* nice_to_have_skills, each string as the job writes it; missing_skills
\* holds the unmatched required skills in the order of required_skills.
C22_JobOrderAndSpelling ==
    SkillsCalled /\ (call.args[2] # <<>> \/ call.args[3] # <<>>) =>
        LET resume_skills == call.args[1]
            required_skills == call.args[2]
            nice_to_have_skills == call.args[3]
            matched == call.ret[2]
            missing == call.ret[3]
            hit_required == Covered(required_skills, resume_skills)
            hit_nice == Covered(nice_to_have_skills, resume_skills)
            not_hit == (1..Len(required_skills)) \ hit_required
            n == Cardinality(hit_required)
        IN /\ Len(matched) = n + Cardinality(hit_nice)
           /\ \A i \in 1..n : matched[i] = required_skills[NthPlace(hit_required, i)]
           /\ \A i \in 1..Cardinality(hit_nice) :
                  matched[n + i] = nice_to_have_skills[NthPlace(hit_nice, i)]
           /\ Len(missing) = Cardinality(not_hit)
           /\ \A i \in 1..Len(missing) : missing[i] = required_skills[NthPlace(not_hit, i)]

\* the resume lists its skills in another order and another spelling than
\* the job does
C22_Witness ==
    /\ SkillsCalled
    /\ call.args[1] = <<s_JS, s_Python_padded>>
    /\ call.args[2] = <<s_python, s_JavaScript>>
    /\ call.ret[2] = <<s_python, s_JavaScript, s_python>>
    /\ call.ret[3] = <<>>

\* a resume skill that is empty or holds nothing but whitespace
Blank(skill) == \A i \in 1..Len(skill) : skill[i] \in Whitespace

\* C29: a resume that lists an empty or whitespace-only skill matches every
\* skill of every job: when the job declares a skill, the skills sub-score
\* is 100, missing_skills is empty and matching_skills is required_skills
\* followed by nice_to_have_skills.
C29_BlankSkillMatchesAll ==
    /\ SkillsCalled
    /\ \E k \in 1..Len(call.args[1]) : Blank(call.args[1][k])
    /\ call.args[2] # <<>> \/ call.args[3] # <<>>
    => /\ call.ret[1] = Whole(100)
       /\ call.ret[2] = call.args[2] \o call.args[3]
       /\ call.ret[3] = <<>>

\* a resume whose only skill is a blank, for a job with three skills
C29_Witness ==
    /\ SkillsCalled
    /\ call.args[1] = <<s_blank>>
    /\ call.args[2] = <<s_JavaScript, s_python>>
    /\ call.args[3] = <<s_Docker>>
    /\ call.ret = <<Whole(100), <<s_JavaScript, s_python, s_Docker>>, <<>>>>

----------------------------------------------------------------------------
(* Properties of _skill_matches, under SpecSkillMatches.                   *)

Normal(s) == strip(lower(s))
SameGroup(a, b) ==
    \E g \in 1..Len(variations) : InSeq(a, variations[g]) /\ InSeq(b, variations[g])

\* C8: skill_matches returns true exactly when the two strings, lower-cased
\* and trimmed, are equal, or one is a substring of the other, or both belong
\* to one group of the synonym table; it returns a boolean for every pair.
C8_SkillMatches ==
    call.fn = "_skill_matches" =>
        LET a == Normal(call.args[1])
            b == Normal(call.args[2])
        IN /\ call.ret \in BOOLEAN
           /\ call.ret = (a = b \/ contains(a, b) \/ contains(b, a) \/ SameGroup(a, b))

\* a match that rests on the synonym table alone, across letter case
C8_Witness ==
    /\ call.fn = "_skill_matches"
    /\ call.ret
    /\ call.args[1] = s_JavaScript
    /\ call.args[2] = s_JS
    /\ ~contains(Normal(s_JS), Normal(s_JavaScript))

----------------------------------------------------------------------------
(* Properties of _calculate_experience_match, under SpecExperience.        *)

\* the bands as the specification lists them
Band(level) ==
    CASE level = s_entry -> <<0, 2>>
      [] level = s_mid -> <<2, 5>>
      [] level = s_senior -> <<5, 10>>
      [] level = s_lead -> <<7, 15>>
      [] level = s_executive -> <<10, 50>>
      [] OTHER -> <<>>

ExperienceCalled == call.fn = "_calculate_experience_match"

\* C10: the experience sub-score is 100 for an empty or unrecognised level;
\* otherwise, with (min, max) the band of the lower-cased level, it is 100
\* when min <= total_years <= max + 2, 90 when total_years > max + 2, and
\* min(100, 100 * total_years / min) when total_years < min.
C10_Experience ==
    ExperienceCalled =>
        LET band == Band(lower(call.args[2]))
            total_years == calculate_total_years_experience(call.args[1], call.year)
        IN IF band = <<>> THEN call.ret = Whole(100)
           ELSE IF RatLt(total_years, Whole(band[1]))
                THEN call.ret = RatMin(Whole(100),
                                       Rat(100 * total_years[1], total_years[2] * band[1]))
           ELSE IF RatLeq(total_years, Whole(band[2] + 2)) THEN call.ret = Whole(100)
           ELSE call.ret = Whole(90)

\* a level written with a capital, met by a history two years over the
\* band's maximum
C10_Witness ==
    /\ ExperienceCalled
    /\ call.args[2] = s_Senior
    /\ calculate_total_years_experience(call.args[1], call.year) = Whole(12)
    /\ call.ret = Whole(100)

----------------------------------------------------------------------------
(* Properties of calculate_match, under Spec.                              *)

MatchCalled == call.fn = "calculate_match"
Boosted == InSeq("Highly qualified candidate", call.ret.reasons)
OpenEnded(entry) == entry.is_current \/ entry.end_date = <<>>
HasOpenEntry(work_experience) ==
    \E i \in 1..Len(work_experience) : OpenEnded(work_experience[i])
Repeated ==
    /\ MatchCalled
    /\ prev.fn = "calculate_match"
    /\ prev.resume = call.resume
    /\ prev.job = call.job

\* C1 as stated: two calls with identical inputs return identical MatchResult
\* values, whatever the calendar year of each call.
C1_Deterministic == Repeated => prev.ret = call.ret

\* C1 amended: two calls with identical inputs return identical MatchResult
\* values when they are made in the same calendar year, or when no
\* work-experience entry of the resume is current or open-ended.
C1_DeterministicGivenYear ==
    Repeated /\ (prev.year = call.year \/ ~HasOpenEntry(call.resume.work_experience))
        => prev.ret = call.ret

\* a closed work history scored in two different years against a level
C1_Witness ==
    /\ Repeated
    /\ prev.year # call.year
    /\ call.resume.work_experience # <<>>
    /\ ~HasOpenEntry(call.resume.work_experience)
    /\ call.job.experience_level = s_lead
    /\ prev.ret = call.ret

\* C2: score, experience_match and location_match lie between 0 and 100; the
\* boost never pushes score above 100.
C2_Bounds ==
    MatchCalled =>
        /\ call.ret.score \in 0..1000
        /\ call.ret.experience_match \in 0..1000
        /\ call.ret.location_match \in 0..1000

\* a boosted call whose total times 1.1 exceeds 100
C2_Witness ==
    /\ MatchCalled
    /\ Boosted
    /\ RatLt(Whole(100), RatMul(call.locals.total_score, Rat(11, 10)))
    /\ call.ret.score = 1000

\* the boost condition as the specification states it
BoostCondition ==
    /\ 10 * Len(call.ret.matching_skills) >= 8 * Len(call.job.required_skills)
    /\ RatLeq(Whole(80), call.locals.experience_score)

\* C3: before any boost the total is skills*0.40 + experience*0.20 +
\* location*0.15 + keyword*0.15 + title*0.10; when the boost condition is
\* false the returned score is that total rounded to one decimal.
C3_WeightedTotal ==
    MatchCalled =>
        LET l == call.locals
            d == l.skills_score[2] * l.experience_score[2] * l.location_score[2]
                 * l.keyword_score[2] * l.title_score[2]
            over(q) == q[1] * (d \div q[2])
        IN /\ l.total_score =
                  Rat(40 * over(l.skills_score) + 20 * over(l.experience_score)
                      + 15 * over(l.location_score) + 15 * over(l.keyword_score)
                      + 10 * over(l.title_score), 100 * d)
           /\ ~BoostCondition => call.ret.score = round1(l.total_score)

\* an unboosted call in which the location and keyword sub-scores differ
C3_Witness ==
    /\ MatchCalled
    /\ ~BoostCondition
    /\ call.locals.keyword_score = Whole(50)
    /\ call.locals.location_score = Whole(70)
    /\ RatLt(Whole(0), call.locals.skills_score)
    /\ RatLt(call.locals.skills_score, Whole(100))

\* C4: the total is multiplied by 1.1, capped at 100, and "Highly qualified
\* candidate" is appended if and only if len(matching_skills) >= 0.8 *
\* len(required_skills) and the experience sub-score is >= 80; so with no
\* required skills the boost applies whenever the experience sub-score is
\* >= 80.
C4_Boost ==
    MatchCalled =>
        /\ Boosted <=> BoostCondition
        /\ call.ret.score =
               IF BoostCondition
               THEN round1(RatMin(Whole(100),
                                  RatMul(call.locals.total_score, Rat(11, 10))))
               ELSE round1(call.locals.total_score)
        /\ (call.job.required_skills = <<>>
                /\ RatLeq(Whole(80), call.locals.experience_score)) => Boosted

\* a boosted call with four of five required skills matched
C4_Witness ==
    /\ MatchCalled
    /\ Boosted
    /\ Len(call.job.required_skills) = 5
    /\ Len(call.ret.matching_skills) = 4
    /\ call.ret.score > round1(call.locals.total_score)

\* the six reasons in the order of the specification, each with its condition
ExpectedReasons ==
    LET l == call.locals
    IN << [text |-> "Matches " \o ToString(Len(call.ret.matching_skills))
                        \o " required/nice-to-have skills",
           due |-> call.ret.matching_skills # <<>>],
          [text |-> "Experience level matches job requirements",
           due |-> RatLeq(Whole(80), l.experience_score)],
          [text |-> "Location preferences align",
           due |-> RatLeq(Whole(80), l.location_score)],
          [text |-> "Strong keyword alignment with job description",
           due |-> RatLeq(Whole(70), l.keyword_score)],
          [text |-> "Previous roles similar to this position",
           due |-> RatLeq(Whole(70), l.title_score)],
          [text |-> "Highly qualified candidate", due |-> BoostCondition] >>

\* C19: each reason is appended exactly when its threshold holds and at most
\* once, and the reasons appear in the fixed order skills, experience,
\* location, keyword, title, "Highly qualified candidate"; the skills reason
\* names the number of matching skills.
C19_Reasons ==
    MatchCalled =>
        LET reasons == call.ret.reasons
            place(text) == CHOOSE k \in 1..6 : ExpectedReasons[k].text = text
        IN /\ \A i \in 1..Len(reasons) : \E k \in 1..6 : ExpectedReasons[k].text = reasons[i]
           /\ \A k \in 1..6 :
                  Count(ExpectedReasons[k].text, reasons)
                      = IF ExpectedReasons[k].due THEN 1 ELSE 0
           /\ \A a, b \in 1..Len(reasons) :
                  a < b => place(reasons[a]) < place(reasons[b])

\* a call that gives all six reasons
C19_Witness ==
    /\ MatchCalled
    /\ Len(call.ret.reasons) = 6
    /\ call.ret.reasons[1] = "Matches 4 required/nice-to-have skills"
    /\ call.ret.reasons[6] = "Highly qualified candidate"

\* C25: the boost goes only to candidates that match at least 80% of the
\* required skills: whenever the reasons hold "Highly qualified candidate",
\* len(missing_skills) <= 0.2 * len(required_skills).
C25_BoostOnlySkillComplete ==
    MatchCalled /\ Boosted =>
        10 * Len(call.ret.missing_skills) <= 2 * Len(call.job.required_skills)

\* the orders in which n entries can be listed
Orders(n) == {p \in [1..n -> 1..n] : \A a, b \in 1..n : p[a] = p[b] => a = b}

\* C27: the MatchResult does not depend on the order of the work_experience
\* entries: for every permutation of them calculate_match returns the same
\* score, experience_match and reasons.
C27_OrderOfEntries ==
    MatchCalled =>
        \A p \in Orders(Len(call.resume.work_experience)) :
            \A m \in {calculate_match(
                          [call.resume EXCEPT !.work_experience =
                              [i \in 1..Len(call.resume.work_experience) |->
                                  call.resume.work_experience[p[i]]]],
                          call.job, call.year).result} :
                /\ m.score = call.ret.score
                /\ m.experience_match = call.ret.experience_match
                /\ m.reasons = call.ret.reasons

\* two different roles, the first of them an exact title hit, for a job
\* that asks for a level
C27_Witness ==
    /\ MatchCalled
    /\ Len(call.resume.work_experience) = 2
    /\ call.resume.work_experience[1] # call.resume.work_experience[2]
    /\ lower(call.resume.work_experience[1].title) = lower(call.job.title)
    /\ call.job.experience_level = s_Senior
    /\ call.locals.title_score = Whole(100)
    /\ InSeq("Previous roles similar to this position", call.ret.reasons)

----------------------------------------------------------------------------
(* Properties of the location, keyword and title sub-scorers, under        *)
(* SpecSubScores.                                                          *)

LocationCalled == call.fn = "_calculate_location_match"
HasComma(s) == InSeq(",", s)
\* what follows the last comma of s, trimmed
LastPart(s) ==
    LET k == CHOOSE i \in 1..Len(s) : s[i] = "," /\ \A m \in (i + 1)..Len(s) : s[m] # ","
    IN strip(SubSeq(s, k + 1, Len(s)))

\* C11: the location sub-score is decided by the first applicable rule:
\* (1) job remote and preference 'remote' -> 100; (2) job hybrid and
\* preference 'hybrid' -> 100; (3) preference 'remote' and job not remote ->
\* 30; (4) both locations non-empty and one contains the other without regard
\* to case -> 100, else both hold a comma and their last components are equal
\* once trimmed -> 70; (5) preference 'any' -> 80; (6) otherwise 50.
C11_Location ==
    LocationCalled =>
        LET pref == lower(call.args[1])
            remote_preference == call.args[2]
            job_loc == lower(call.args[3])
            is_remote == call.args[4]
            is_hybrid == call.args[5]
            both == call.args[1] # <<>> /\ call.args[3] # <<>>
            within == both /\ (contains(pref, job_loc) \/ contains(job_loc, pref))
            region == /\ both
                      /\ HasComma(pref) /\ HasComma(job_loc)
                      /\ LastPart(pref) = LastPart(job_loc)
        IN /\ call.ret =
                CASE is_remote /\ remote_preference = "remote" -> 100
                  [] is_hybrid /\ remote_preference = "hybrid"
                     /\ ~(is_remote /\ remote_preference = "remote") -> 100
                  [] OTHER ->
                       IF remote_preference = "remote" THEN 30
                       ELSE IF within THEN 100
                       ELSE IF region THEN 70
                       ELSE IF remote_preference = "any" THEN 80
                       ELSE 50
           /\ (is_remote /\ remote_preference = "remote") => call.ret = 100

\* a flexible candidate whose city differs from the job's but whose state,
\* written without the space and in another case, is the same
C11_Witness ==
    /\ LocationCalled
    /\ call.args = <<s_Waco_TX, "any", s_Dallas_TX, FALSE, FALSE>>
    /\ call.ret = 70

\* a call for a flexible candidate whose location and the job's are both
\* there, neither within the other
FlexibleElsewhere ==
    /\ LocationCalled
    /\ call.args[2] = "any"
    /\ call.args[1] # <<>> /\ call.args[3] # <<>>
    /\ ~contains(lower(call.args[1]), lower(call.args[3]))
    /\ ~contains(lower(call.args[3]), lower(call.args[1]))

\* C28: for a flexible candidate (remote_preference 'any') whose preferred
\* location and the job's location are non-empty and neither within the
\* other, the location sub-score is 70 if both hold a comma and end on the
\* same component once trimmed, and 80 otherwise: the match of the region
\* alone scores lower than no match of the location.
C28_RegionBelowNoMatch ==
    FlexibleElsewhere =>
        IF /\ HasComma(call.args[1]) /\ HasComma(call.args[3])
           /\ LastPart(lower(call.args[1])) = LastPart(lower(call.args[3]))
        THEN call.ret = 70 /\ call.ret < 80
        ELSE call.ret = 80

\* the same state, written with a blank before it by the employer only
C28_Witness ==
    /\ FlexibleElsewhere
    /\ call.args[1] = s_Waco_TX /\ call.args[3] = s_Austin_TX
    /\ ~call.args[4] /\ ~call.args[5]
    /\ call.ret = 70

KeywordCalled == call.fn = "_calculate_keyword_match"

\* C12: the keyword sub-score is 100 when job_keywords and job_description
\* are both empty or when the union of the lower-cased job keywords and the
\* keywords extracted from the description is empty; otherwise it is 100 *
\* |lower-cased resume keywords /\ all_job_keywords| / |all_job_keywords|,
\* on sets, so a keyword listed twice or in two cases counts once; it lies
\* between 0 and 100.
C12_Keyword ==
    KeywordCalled =>
        LET resume_kw == {lower(call.args[1][i]) : i \in 1..Len(call.args[1])}
            job_kw == {lower(call.args[2][i]) : i \in 1..Len(call.args[2])}
            all_job_keywords == job_kw \cup findall_words(lower(call.args[3]))
            common == {k \in all_job_keywords : k \in resume_kw}
        IN /\ IF (call.args[2] = <<>> /\ call.args[3] = <<>>) \/ all_job_keywords = {}
              THEN call.ret = Whole(100)
              ELSE call.ret[1] * Cardinality(all_job_keywords)
                       = 100 * Cardinality(common) * call.ret[2]
           /\ RatLeq(Whole(0), call.ret)
           /\ RatLeq(call.ret, Whole(100))

\* a keyword listed in two cases on both sides, against a description that
\* adds three more keywords: one of four
C12_Witness ==
    /\ KeywordCalled
    /\ call.args = << <<s_Python, s_python>>, <<s_python, s_Python>>, s_description >>
    /\ call.ret = Whole(25)

TitleCalled == call.fn = "_calculate_title_match"
RatMaximum(S) == CHOOSE m \in S : \A x \in S : RatLeq(x, m)

\* C13: the title sub-score is 50 when job_title or work_experience is
\* empty; otherwise 100 whenever some role's title equals the job title
\* without regard to case, wherever that role stands and whatever the other
\* roles are; otherwise the largest candidate score over the roles that have
\* a title, and 0 when no role has a positive candidate score.
C13_Title ==
    TitleCalled =>
        LET work_experience == call.args[1]
            job_title_lower == lower(call.args[2])
            titled == {i \in 1..Len(work_experience) : work_experience[i].title # <<>>}
            candidates ==
                {title_candidate(job_title_lower, lower(work_experience[i].title), Whole(0)) :
                    i \in titled}
        IN IF call.args[2] = <<>> \/ work_experience = <<>> THEN call.ret = Whole(50)
           ELSE IF \E i \in titled : lower(work_experience[i].title) = job_title_lower
                THEN call.ret = Whole(100)
           ELSE call.ret = RatMaximum(candidates \cup {Whole(0)})

\* the job's title is the title of the second role, in another case, after a
\* first role that only contains it
C13_Witness ==
    /\ TitleCalled
    /\ call.args[2] = s_backend_engineer
    /\ Len(call.args[1]) = 2
    /\ call.args[1][1].title = s_Senior_Backend_Engineer
    /\ call.args[1][2].title = s_Backend_Engineer
    /\ call.ret = Whole(100)

\* a call whose only titled role contains the job title, or is contained in
\* it, without being equal to it
OnlyContainmentHit ==
    /\ TitleCalled
    /\ call.args[2] # <<>>
    /\ Cardinality({i \in 1..Len(call.args[1]) : call.args[1][i].title # <<>>}) = 1
    /\ \A i \in 1..Len(call.args[1]) :
           LET exp_title == lower(call.args[1][i].title)
               job_title_lower == lower(call.args[2])
           IN exp_title # <<>> =>
                  /\ exp_title # job_title_lower
                  /\ contains(job_title_lower, exp_title) \/ contains(exp_title, job_title_lower)

\* the share, in hundredths, of the words of two titles that both have
Jaccard(a, b) ==
    Rat(Cardinality(word_set(a) \cap word_set(b)) * 100,
        Cardinality(word_set(a) \cup word_set(b)))

\* C24 as stated: the three tests are an else-chain, so a work history whose
\* only titled role is a containment hit that is no exact hit has the title
\* sub-score 80.
C24_ContainmentIs80 == OnlyContainmentHit => call.ret = Whole(80)

\* C24 amended: the word overlap is computed for a containment hit too, and
\* the larger of the two counts: a work history whose only titled role is a
\* containment hit that is no exact hit has the larger of 80 and the word
\* overlap as its title sub-score, which is at least 80 and is 100 when the
\* two titles have the same words.
C24_ContainmentAtLeast80 ==
    OnlyContainmentHit =>
        \A i \in 1..Len(call.args[1]) :
            call.args[1][i].title # <<>> =>
                /\ call.ret = RatMax(Whole(80),
                                     Jaccard(lower(call.args[2]), lower(call.args[1][i].title)))
                /\ RatLeq(Whole(80), call.ret)

\* a role whose title is the job title followed by a blank
C24_Witness ==
    /\ OnlyContainmentHit
    /\ call.args[1] = <<Entry(s_Backend_Engineer_trailing, d_2020, d_2022, FALSE)>>
    /\ call.args[2] = s_backend_engineer
    /\ call.ret = Whole(100)

----------------------------------------------------------------------------
(* Properties of rank_candidates and find_matching_jobs, under SpecRank.   *)

BatchCalled == call.fn \in {"rank_candidates", "find_matching_jobs"}
\* the (item, result) pair of every input item, in input order
InputPairs ==
    IF call.fn = "rank_candidates"
    THEN [i \in 1..Len(call.args[1]) |->
             <<call.args[1][i],
               calculate_match(call.args[1][i], call.args[2], call.year).result>>]
    ELSE [i \in 1..Len(call.args[2]) |->
             <<call.args[2][i],
               calculate_match(call.args[1], call.args[2][i], call.year).result>>]
WithScore(pairs, s) == SelectSeq(pairs, LAMBDA p : p[2].score = s)

\* C14: rank_candidates and find_matching_jobs return exactly one (item,
\* result) pair for each input item whose score is >= min_score and none for
\* the others, ordered by non-increasing score, items of equal score in their
\* relative input order.
C14_Ranking ==
    BatchCalled =>
        \A pairs \in {InputPairs} :
            LET min_score == call.args[3]
                out == call.ret
                scores == {pairs[i][2].score : i \in 1..Len(pairs)}
                          \cup {out[i][2].score : i \in 1..Len(out)}
            IN /\ \A s \in scores :
                      WithScore(out, s) = IF s >= min_score THEN WithScore(pairs, s)
                                          ELSE <<>>
               /\ \A a, b \in 1..Len(out) : a < b => out[a][2].score >= out[b][2].score

\* three candidates, the first and the last tied exactly at min_score and
\* the second above them
C14_Witness ==
    /\ call.fn = "rank_candidates"
    /\ call.args[3] = 720
    /\ Len(call.ret) = 3
    /\ call.ret[1] = InputPairs[2]
    /\ call.ret[2] = InputPairs[1]
    /\ call.ret[3] = InputPairs[3]
    /\ call.ret[2][2].score = 720
    /\ call.ret[3][2].score = 720
    /\ call.ret[2][1] # call.ret[3][1]

\* C18: the batch calls have no side effects: after any sequence of calls
\* the input records, the input lists with their element order and the
\* matcher's skill_weights are as they were, and each call returns a list it
\* allocated itself.
C18_NoSideEffects ==
    /\ skill_weights = [required |-> 2, nice_to_have |-> 1]
    /\ BatchCalled =>
           /\ call.before = [skill_weights |-> skill_weights, resume |-> resume,
                             job |-> job]
           /\ call.fresh

\* two jobs returned in the reverse of the order in which they were passed,
\* and still stored in that order
C18_Witness ==
    /\ call.fn = "find_matching_jobs"
    /\ Len(call.args[2]) = 2
    /\ Len(call.ret) = 2
    /\ call.ret[1][1] = call.args[2][2]
    /\ call.ret[2][1] = call.args[2][1]
    /\ call.ret[1][1] # call.ret[2][1]
    /\ job = call.args[2]

----------------------------------------------------------------------------
(* Properties of calculate_match on stored records, under SpecStored.      *)

\* C15 as stated: optional fields that hold None are treated as empty and
\* never make calculate_match raise; the MatchResult equals the one obtained
\* with those fields empty.
C15_NoneAsEmpty ==
    call.fn = "apply_to_job" =>
        /\ ~call.ret.raises
        /\ call.ret.result = calculate_match(call.resume, call.job, call.year).result

----------------------------------------------------------------------------
(* Properties of _calculate_total_years_experience, under SpecExperience.  *)

\* a date string that is there and does not begin with a digit
Malformed(date) == date # <<>> /\ ~IsDigit(date[1])
Without(s, i) == SubSeq(s, 1, i - 1) \o SubSeq(s, i + 1, Len(s))
TotalYears(work_experience) ==
    calculate_total_years_experience(work_experience, call.year)
Skipped(work_experience, i) ==
    /\ TotalYears(<<work_experience[i]>>) = Whole(0)
    /\ TotalYears(work_experience) = TotalYears(Without(work_experience, i))

\* C16 as stated: an entry whose start_date or end_date does not begin with
\* an integer contributes 0 years and leaves the contribution of every other
\* entry unchanged.
C16_MalformedSkipped ==
    ExperienceCalled =>
        \A i \in 1..Len(call.args[1]) :
            LET entry == call.args[1][i]
            IN Malformed(entry.start_date) \/ Malformed(entry.end_date)
                   => Skipped(call.args[1], i)

\* C16 amended: an entry whose start_date does not begin with an integer, or
\* whose end_date is read (the entry is not current) and does not begin with
\* an integer, contributes 0 years and leaves the contribution of every other
\* entry unchanged; the end_date of a current entry is not read, so a current
\* entry with a well-formed start_date counts up to the current year
\* whatever its end_date is.
C16_MalformedReadSkipped ==
    ExperienceCalled =>
        \A i \in 1..Len(call.args[1]) :
            LET entry == call.args[1][i]
            IN /\ Malformed(entry.start_date) \/ (Malformed(entry.end_date) /\ ~entry.is_current)
                      => Skipped(call.args[1], i)
               /\ entry.is_current /\ Malformed(entry.end_date)
                      => TotalYears(<<entry>>)
                             = TotalYears(<<[entry EXCEPT !.end_date = <<>>]>>)

\* an entry with a malformed start before a well-formed entry of three years
C16_Witness ==
    /\ ExperienceCalled
    /\ Len(call.args[1]) = 2
    /\ Malformed(call.args[1][1].start_date)
    /\ call.args[1][2].start_date = d_2020_03
    /\ TotalYears(call.args[1]) = Whole(3)

\* the part of a date before its first '-'
BeforeDash(date) ==
    IF \E i \in 1..Len(date) : date[i] = "-"
    THEN SubSeq(date, 1, (CHOOSE i \in 1..Len(date) :
                              date[i] = "-" /\ \A k \in 1..(i - 1) : date[k] # "-") - 1)
    ELSE date
Parseable(date) ==
    /\ BeforeDash(date) # <<>>
    /\ \A i \in 1..Len(BeforeDash(date)) : IsDigit(BeforeDash(date)[i])
YearOf(date) == digits_value(BeforeDash(date))

\* the years of one entry: none when its start_date, or the end_date it
\* ends on, is not a date
YearsOfEntry(entry, year) ==
    IF ~Parseable(entry.start_date) THEN 0
    ELSE IF entry.is_current \/ entry.end_date = <<>>
         THEN IF year > YearOf(entry.start_date) THEN year - YearOf(entry.start_date) ELSE 0
    ELSE IF ~Parseable(entry.end_date) THEN 0
    ELSE IF YearOf(entry.end_date) > YearOf(entry.start_date)
         THEN YearOf(entry.end_date) - YearOf(entry.start_date) ELSE 0

RECURSIVE SumOfYears(_, _)
SumOfYears(work_experience, year) ==
    IF work_experience = <<>> THEN 0
    ELSE YearsOfEntry(Head(work_experience), year) + SumOfYears(Tail(work_experience), year)

\* C23: total_years is the sum over the entries with a parseable start_date
\* of max(0, end_year - start_year), start_year the integer before the first
\* '-' of start_date, end_year the current year for a current or open-ended
\* entry and the integer before the first '-' of end_date otherwise; months
\* are ignored, so total_years is a non-negative whole number and an entry
\* that starts and ends in the same year adds nothing.
C23_WholeYears ==
    ExperienceCalled =>
        \A total \in {TotalYears(call.args[1])} :
            /\ total = Whole(SumOfYears(call.args[1], call.year))
            /\ total[2] = 1 /\ total[1] >= 0
            /\ \A i \in 1..Len(call.args[1]) :
                   LET entry == call.args[1][i]
                   IN (/\ ~entry.is_current
                       /\ Parseable(entry.start_date) /\ Parseable(entry.end_date)
                       /\ YearOf(entry.start_date) = YearOf(entry.end_date))
                          => TotalYears(<<entry>>) = Whole(0)

\* an entry from 2020 to 2020-03 next to one from 2020-03 to 2023-11
C23_Witness ==
    /\ ExperienceCalled
    /\ call.args[1] = <<Entry(<<>>, d_2020, d_2020_03, FALSE),
                        Entry(<<>>, d_2020_03, d_2023_11, FALSE)>>
    /\ TotalYears(call.args[1]) = Whole(3)

----------------------------------------------------------------------------
(* Properties of concurrent calls, under SpecThreads.                      *)

\* C17: under every interleaving of concurrent calculate_match calls on the
\* singleton, each call returns the MatchResult it returns when run alone,
\* and no call writes the matcher's fields.
C17_Isolation ==
    /\ skill_weights = [required |-> 2, nice_to_have |-> 1]
    /\ \A t \in Threads :
           call.pc[t] = "done"
               => call.ret[t] = calculate_match(resume[t], job[t], now_year).result

\* a call that returned while another call, on another resume and another
\* job, was between its steps
C17_Witness ==
    \E t, u \in Threads :
        /\ call.pc[t] = "done"
        /\ call.pc[u] \in {"location", "keyword", "title", "return"}
        /\ resume[t] # resume[u]
        /\ job[t] # job[u]
        /\ call.ret[t] = calculate_match(resume[t], job[t], now_year).result

----------------------------------------------------------------------------
(* Properties of get_recommended_jobs, under SpecRecommend.                *)

Matched == call.fn = "get_recommended_jobs" /\ call.args.resume # <<>>

\* whether calculate_match fails on the job at place k of a matched request
Fails(k) ==
    raised_by(resume_data(call.args.resume[1]), job_data(call.args.job[k])) # ""

\* where an item of scored_jobs stands once sorted: behind every item of
\* greater score, and behind the items of equal score that were scored
\* before it
PlaceSorted(items, i) ==
    1 + Cardinality({k \in 1..Len(items) :
                        \/ items[k].match_score > items[i].match_score
                        \/ items[k].match_score = items[i].match_score /\ k < i})

\* C20: a request of a user with a resume is answered, never aborted, when
\* calculate_match fails for a job: scored_jobs holds every active job
\* once, a job on which calculate_match fails with match_score 0 and empty
\* matching_skills and match_reasons, every other job with the score,
\* matching skills and reasons of its own calculate_match; the response is
\* scored_jobs sorted by descending score and cut at the limit.
C20_FailureIsolated ==
    Matched =>
        \A rows \in {call.args.job} : \A r \in {resume_data(call.args.resume[1])} :
        \A items \in {call.ret.scored_jobs} : \A jobs \in {call.ret.jobs} :
            /\ call.ret.status = 200 /\ call.ret.source = "matched"
            /\ \A k \in 1..Len(rows) :
                   Cardinality({i \in 1..Len(items) : items[i].job = k})
                       = IF rows[k].status = "active" THEN 1 ELSE 0
            /\ \A i \in 1..Len(items) :
                   IF Fails(items[i].job)
                   THEN /\ items[i].match_score = 0
                        /\ items[i].matching_skills = <<>>
                        /\ items[i].match_reasons = <<>>
                   ELSE \A m \in {calculate_match(r, job_data(rows[items[i].job]), call.year).result} :
                        /\ items[i].match_score = m.score
                        /\ items[i].matching_skills = m.matching_skills
                        /\ items[i].match_reasons = m.reasons
            /\ Len(jobs) = Len(slice_to(items, call.args.limit))
            /\ \A i \in 1..Len(items) :
                   PlaceSorted(items, i) <= Len(jobs) =>
                       /\ jobs[PlaceSorted(items, i)].id = items[i].job
                       /\ jobs[PlaceSorted(items, i)].matching_skills = items[i].matching_skills
                       /\ jobs[PlaceSorted(items, i)].match_reasons = items[i].match_reasons
                       /\ jobs[PlaceSorted(items, i)].match_score * 10 - items[i].match_score \in -5..5

\* three active jobs, calculate_match failing on the first only, the limit
\* cutting the failed job off the response
C20_Witness ==
    /\ Matched
    /\ Len(call.ret.scored_jobs) = 3
    /\ Fails(call.ret.scored_jobs[1].job)
    /\ ~Fails(call.ret.scored_jobs[2].job) /\ ~Fails(call.ret.scored_jobs[3].job)
    /\ call.ret.scored_jobs[1].match_score = 0
    /\ call.ret.scored_jobs[2].match_score > 0
    /\ call.args.limit = 2
    /\ Len(call.ret.jobs) = 2
    /\ call.ret.jobs[1].id # 1 /\ call.ret.jobs[2].id # 1

----------------------------------------------------------------------------
(* Properties of batch ranking over stored records, under SpecBatch.       *)

\* C21: a batch ranking is answered with the candidates it could score: a
\* failure of calculate_match on one candidate aborts neither
\* rank_candidates nor the match-candidates request.
C21_BatchNotAborted ==
    /\ call.fn = "rank_candidates" => ~call.ret.raises
    /\ call.fn = "match_candidates_to_job" => call.ret.status # 500

\* the sub-scores of a call of calculate_match: the location sub-score is one
\* of the five values the location scorer returns, no other is negative
SubScoresFromBelow(locals) ==
    /\ locals.location_score \in {Whole(30), Whole(50), Whole(70), Whole(80), Whole(100)}
    /\ RatLeq(Whole(0), locals.skills_score)
    /\ RatLeq(Whole(0), locals.experience_score)
    /\ RatLeq(Whole(0), locals.keyword_score)
    /\ RatLeq(Whole(0), locals.title_score)

\* C26: calculate_match never returns the score 0: the location sub-score is
\* one of 30, 50, 70, 80 and 100 and no other sub-score is negative, so
\* every score is at least 4.5; in a recommendation request every job that
\* calculate_match scored has a score of at least 4.5, and a job that got
\* the score 0 after a failure stands behind every job that was scored.
C26_FallbackLast ==
    /\ MatchCalled => SubScoresFromBelow(call.locals) /\ call.ret.score >= 45
    /\ Matched =>
           \A rows \in {call.args.job} : \A r \in {resume_data(call.args.resume[1])} :
           \A items \in {call.ret.scored_jobs} : \A jobs \in {call.ret.jobs} :
               /\ \A i \in 1..Len(items) :
                      IF Fails(items[i].job) THEN items[i].match_score = 0
                      ELSE /\ items[i].match_score >= 45
                           /\ SubScoresFromBelow(
                                  calculate_match(r, job_data(rows[items[i].job]),
                                                  call.year).locals)
               /\ \A a, b \in 1..Len(jobs) :
                      Fails(jobs[a].id) /\ ~Fails(jobs[b].id) => b < a

\* the job that failed was created first and stands last in the response,
\* behind the two jobs that were scored
C26_Witness ==
    /\ Matched
    /\ Len(call.ret.jobs) = 3
    /\ call.ret.jobs[3].id = 1 /\ Fails(1)
    /\ call.ret.jobs[3].match_score = 0
    /\ ~Fails(2) /\ ~Fails(3)
    /\ call.ret.jobs[1].match_score > 0 /\ call.ret.jobs[2].match_score > 0

----------------------------------------------------------------------------
(* Properties of the requests of POST /applications, under SpecApply.      *)

ApplicationsOf(candidate_id, job_id) ==
    {i \in 1..Len(call.applications) :
        /\ call.applications[i].job_id = job_id
        /\ call.applications[i].candidate_id = candidate_id}

Applicants(job_id) ==
    {call.applications[i].candidate_id :
        i \in {k \in 1..Len(call.applications) : call.applications[k].job_id = job_id}}

\* C30: after any interleaving of concurrent apply_to_job requests, the
\* job_applications table holds at most one row for a (candidate, job) pair,
\* and the applications_count of a job has gone up at most once for each
\* candidate who applied to it.
C30_AtMostOneApplication ==
    call.fn = "apply_to_job" /\ "applications" \in DOMAIN call =>
        \A job_id \in 1..Len(job) :
            /\ \A candidate_id \in {req.current_user : req \in ApplicationRequests} :
                   Cardinality(ApplicationsOf(candidate_id, job_id)) <= 1
            /\ job[job_id].applications_count <= Cardinality(Applicants(job_id))

====
